---- MODULE Spec2Model ----
(***************************************************************************)
(* Model of the Gmail tools of gmail_crew_ai (tools/gmail_tools.py and     *)
(* tools/gmail_reader.py): the IMAP session each tool opens, the commands  *)
(* it issues on it, and the draft SaveDraftTool composes and appends.      *)
(*                                                                         *)
(* Text is modelled as a sequence of one-character strings, so that        *)
(* str.lower, str.strip and str.startswith are computed, not assumed.      *)
(* The IMAP server is the environment: which mailbox names it lets a       *)
(* client select, what LIST returns, whether SEARCH sees a message that    *)
(* was appended, and the outcome (OK, NO, or an exception raised by        *)
(* imaplib) of each command.                                               *)
(***************************************************************************)
EXTENDS Integers, Sequences, FiniteSets, TLC

\* ------------------------------------------------------------------------
\* Bounds of the model
\* ------------------------------------------------------------------------
MaxCalls == 2      \* tool calls made one after the other on the same mailbox
MaxThread == 2     \* messages in a thread context handed to save_draft
MaxRefs == 2       \* entries of a References chain
MaxDate == 2       \* distinct instants a Date header can parse to
MaxInbox == 3      \* messages in INBOX
MaxLimit == 2      \* the arguments limit and max_depth
MaxSegments == 2   \* pieces a draft body is put together from
MaxRun == 2        \* emails main.run goes through
MaxClock == 3      \* half seconds that pass while main.run is in its loop

\* ------------------------------------------------------------------------
\* Text
\* ------------------------------------------------------------------------
UpperLetters == <<"A","B","C","D","E","F","G","H","I","J","K","L","M",
                  "N","O","P","Q","R","S","T","U","V","W","X","Y","Z">>
LowerLetters == <<"a","b","c","d","e","f","g","h","i","j","k","l","m",
                  "n","o","p","q","r","s","t","u","v","w","x","y","z">>

\* str.lower() on one character
LowerChar(c) ==
  IF \E i \in 1..Len(UpperLetters) : UpperLetters[i] = c
  THEN LowerLetters[CHOOSE i \in 1..Len(UpperLetters) : UpperLetters[i] = c]
  ELSE c

\* str.lower()
Lower(s) == [i \in 1..Len(s) |-> LowerChar(s[i])]

IsSpace(c) == c \in {" ", "\t", "\n"}

RECURSIVE LStrip(_)
LStrip(s) == IF s # <<>> /\ IsSpace(Head(s)) THEN LStrip(Tail(s)) ELSE s

RECURSIVE RStrip(_)
RStrip(s) ==
  IF s # <<>> /\ IsSpace(s[Len(s)]) THEN RStrip(SubSeq(s, 1, Len(s) - 1)) ELSE s

\* str.strip()
Strip(s) == RStrip(LStrip(s))

\* str.startswith(p)
StartsWith(s, p) == Len(s) >= Len(p) /\ SubSeq(s, 1, Len(p)) = p

\* p occurs in s as a substring
Contains(s, p) ==
  \E i \in 0..(Len(s) - Len(p)) : SubSeq(s, i + 1, i + Len(p)) = p

\* Literals of the source
RE_COLON == <<"r","e",":">>
RE_PREFIX == <<"R","e",":"," ">>
NO_SUBJECT == <<"N","o"," ","S","u","b","j","e","c","t">>
RE_NO_SUBJECT == RE_PREFIX \o NO_SUBJECT

\* Subjects used as inputs
S_EMPTY == <<>>
S_BLANK == <<" ">>
S_STATUS == <<"S","t","a","t","u","s">>
S_RE_STATUS == RE_PREFIX \o S_STATUS
S_UPPER_RE == <<"R","E",":","H","i">>
S_HELLO == <<"H","i">>

\* ------------------------------------------------------------------------
\* Thread context handed to SaveDraftTool._run (thread_info)
\* ------------------------------------------------------------------------
\* A Date header value.  "none": the key is missing or empty; "bad": text
\* email.utils.parsedate_to_datetime cannot parse (it raises); "aware": a
\* date with a UTC offset, parsed to an offset-aware datetime at instant t;
\* "naive": a date with offset -0000, parsed to a naive datetime.
D_NONE == [k |-> "none", t |-> 0]
D_BAD == [k |-> "bad", t |-> 0]
Aware(n) == [k |-> "aware", t |-> n]
Naive(n) == [k |-> "naive", t |-> n]

\* The sort key of line 439: parsedate_to_datetime(x['date']) if x.get('date')
\* else datetime.datetime.min (a naive datetime below every parsed one).
SortKey(m) == IF m.date.k = "none" THEN Naive(0) ELSE m.date

\* sorted() raises when a key cannot be computed (unparseable date) or when
\* it has to compare a naive with an offset-aware datetime (TypeError); a
\* sort of two or more elements compares across the two kinds if both occur.
SortRaises(msgs) ==
  \/ \E i \in 1..Len(msgs) : msgs[i].date.k = "bad"
  \/ \E i, j \in 1..Len(msgs) : SortKey(msgs[i]).k # SortKey(msgs[j]).k

\* x goes behind every element whose key is at least its own: with the
\* elements inserted in their original order this is sorted(reverse=True),
\* which keeps elements of equal key in their original order.
RECURSIVE InsertDesc(_, _)
InsertDesc(x, s) ==
  IF s = <<>> THEN <<x>>
  ELSE IF SortKey(Head(s)).t >= SortKey(x).t
       THEN <<Head(s)>> \o InsertDesc(x, Tail(s))
       ELSE <<x>> \o s

RECURSIVE SortedDesc(_)
SortedDesc(msgs) ==
  IF msgs = <<>> THEN <<>>
  ELSE InsertDesc(msgs[Len(msgs)], SortedDesc(SubSeq(msgs, 1, Len(msgs) - 1)))

\* SaveDraftTool._get_latest_thread_info, called with a truthy thread_info.
\* ok = FALSE: the sort raised, and the exception leaves _run's try block.
get_latest_thread_info(ti) ==
  IF ti.thread_messages # <<>>
  THEN IF SortRaises(ti.thread_messages)
       THEN [ok |-> FALSE, message_id |-> "", references |-> <<>>]
       ELSE [ok |-> TRUE,
             message_id |-> SortedDesc(ti.thread_messages)[1].message_id,
             references |-> ti.references]
  ELSE [ok |-> TRUE, message_id |-> ti.message_id, references |-> ti.references]

\* thread_subject of lines 494-502 (None is the empty text: both are falsy)
RECURSIVE FirstSubject(_)
FirstSubject(msgs) ==
  IF msgs = <<>> THEN <<>>
  ELSE IF Head(msgs).subject # <<>> THEN Head(msgs).subject
       ELSE FirstSubject(Tail(msgs))

thread_subject(ti) ==
  IF ~ti.present THEN <<>>
  ELSE IF ti.thread_subject # <<>> THEN ti.thread_subject
       ELSE FirstSubject(ti.thread_messages)

\* Mutant: the thread's subject is not consulted
default_subject_NoThread(subject, ti) ==
  IF subject = <<>> \/ Strip(subject) = <<>>
  THEN IF ti.present THEN RE_NO_SUBJECT ELSE NO_SUBJECT
  ELSE subject

\* Lines 505-511: the subject when the caller's is missing or blank
default_subject(subject, ti) ==
  IF subject = <<>> \/ Strip(subject) = <<>>
  THEN IF thread_subject(ti) # <<>> /\ Strip(thread_subject(ti)) # <<>>
       THEN Strip(thread_subject(ti))
       ELSE IF ti.present THEN RE_NO_SUBJECT ELSE NO_SUBJECT
  ELSE subject

\* Mutant: the prefix is compared with the letter case as written
reply_prefix_CaseSensitive(subject, ti) ==
  IF ti.present /\ ~StartsWith(subject, <<"R", "e", ":">>)
  THEN RE_PREFIX \o subject
  ELSE subject

\* Lines 514-515: the reply prefix
reply_prefix(subject, ti) ==
  IF ti.present /\ ~StartsWith(Lower(subject), RE_COLON)
  THEN RE_PREFIX \o subject
  ELSE subject

\* Lines 504-517: message["Subject"]
draft_subject(subject, ti) == reply_prefix(default_subject(subject, ti), ti)

\* Mutant: the id is appended unless it is the last entry
draft_references_IfNotLast(latest) ==
  IF latest.message_id # ""
       /\ (latest.references = <<>>
           \/ latest.references[Len(latest.references)] # latest.message_id)
  THEN Append(latest.references, latest.message_id)
  ELSE latest.references

\* Lines 522-527: the References list
draft_references(latest) ==
  IF latest.message_id # "" /\ ~(\E i \in 1..Len(latest.references) :
                                   latest.references[i] = latest.message_id)
  THEN Append(latest.references, latest.message_id)
  ELSE latest.references

\* Lines 487-533: the message SaveDraftTool._run builds.  An absent header is
\* the empty value.  ok = FALSE: building it raised.
compose(subject, ti) ==
  IF ~ti.present
  THEN [ok |-> TRUE, subject |-> draft_subject(subject, ti),
        in_reply_to |-> "", references |-> <<>>]
  ELSE LET latest == get_latest_thread_info(ti)
       IN IF ~latest.ok
          THEN [ok |-> FALSE, subject |-> draft_subject(subject, ti),
                in_reply_to |-> "", references |-> <<>>]
          ELSE [ok |-> TRUE, subject |-> draft_subject(subject, ti),
                in_reply_to |-> latest.message_id,
                references |-> draft_references(latest)]

\* ------------------------------------------------------------------------
\* The mail server
\* ------------------------------------------------------------------------
\* Mailbox names as the tools pass them to imaplib
Q_GMAIL_DRAFTS == "\"[Gmail]/Drafts\""
GMAIL_DRAFTS == "[Gmail]/Drafts"
DRAFTS == "Drafts"
DRAFTS_UPPER == "DRAFTS"
Q_GOOGLE_DRAFTS == "\"[Google Mail]/Drafts\""
ALL_MAIL == "[Gmail]/All Mail"
INBOX == "INBOX"

\* Mutant: the candidates in the opposite order
DraftCandidates_Reversed == <<DRAFTS, GMAIL_DRAFTS, Q_GMAIL_DRAFTS>>

\* Lines 466-480: the drafts folders _run tries, in this order
DraftCandidates == <<Q_GMAIL_DRAFTS, GMAIL_DRAFTS, DRAFTS>>

\* Mutant: the bare spelling of [Gmail]/Drafts is not looked in
VerifyFolders_NoBare ==
  <<Q_GMAIL_DRAFTS, DRAFTS, DRAFTS_UPPER, Q_GOOGLE_DRAFTS>>

\* Lines 394-400: the folders _verify_draft_saved looks in, in this order
VerifyFolders ==
  <<Q_GMAIL_DRAFTS, DRAFTS, DRAFTS_UPPER, Q_GOOGLE_DRAFTS, GMAIL_DRAFTS>>

\* The mailbox a name denotes on the server: the quoted and the bare form of
\* a name are the same mailbox; names differing in case are different ones.
Mailbox(name) ==
  CASE name = Q_GMAIL_DRAFTS -> "[Gmail]/Drafts"
    [] name = Q_GOOGLE_DRAFTS -> "[Google Mail]/Drafts"
    [] OTHER -> name

\* Lines of a LIST response
L_INBOX == "(\\HasNoChildren) \"/\" \"INBOX\""
L_GMAIL_DRAFTS == "(\\HasNoChildren \\Drafts) \"/\" \"[Gmail]/Drafts\""
L_ENTWUERFE == "(\\HasNoChildren \\Drafts) \"/\" \"[Gmail]/Entw&APw-rfe\""
L_PLAIN_DRAFTS == "(\\HasNoChildren) \"/\" \"Drafts\""

\* Line 384: b'Drafts' in mailbox or b'Draft' in mailbox
MentionsDraft(line) == line \in {L_GMAIL_DRAFTS, L_ENTWUERFE, L_PLAIN_DRAFTS}

\* LIST responses a server may give
ListResponses ==
  { <<>>, <<L_INBOX, L_GMAIL_DRAFTS>>, <<L_INBOX, L_ENTWUERFE>>,
    <<L_INBOX, L_PLAIN_DRAFTS>> }

\* Lines 383-387: the lines of a LIST response that mention a drafts folder
RECURSIVE check_drafts_folder(_)
check_drafts_folder(lines) ==
  IF lines = <<>> THEN <<>>
  ELSE IF MentionsDraft(Head(lines))
       THEN <<Head(lines)>> \o check_drafts_folder(Tail(lines))
       ELSE check_drafts_folder(Tail(lines))

\* ------------------------------------------------------------------------
\* State
\* ------------------------------------------------------------------------
VARIABLES
  creds,          \* environment: which of EMAIL_ADDRESS, APP_PASSWORD are set
  lenient,        \* server: it answers a SEARCH whose keys are joined by OR
  inbox,          \* server: the messages of INBOX, by sequence number
  accepts,        \* server: the mailbox names SELECT answers OK to
  indexes,        \* server: SEARCH sees a message as soon as it is appended
  faulty,         \* server: a command may be refused or break the connection
  mailboxes,      \* server: the LIST response
  mbox,           \* server: the messages held, in order of arrival
  calls,          \* number of the tool call in progress
  tool,           \* the tool whose _run is in progress
  pc,             \* where _run is
  sess,           \* state of the call's imaplib session
  bound,          \* the local `mail` is bound
  log,            \* what this call has done so far, in order
  result,         \* what the call returned (or raised)
  subject,        \* argument subject
  thread_info,    \* argument thread_info
  organize_args,  \* arguments of GmailOrganizeTool._run
  limit,          \* argument limit
  email_id,       \* argument email_id (a sequence number of INBOX)
  max_depth,      \* argument max_depth
  email_data,     \* argument email_data of EmailAnalysisTool._run
  drafts_folders, \* local drafts_folders
  cand,           \* index of the drafts-folder candidate being tried
  drafts_folder,  \* local drafts_folder
  message,        \* local message
  emails,         \* local emails: the messages collected so far
  history,        \* the dictionary GetThreadHistoryTool._run returns
  analysis,       \* the dictionary EmailAnalysisTool._run returns
  body,           \* argument body of SaveDraftTool._run
  body_with_signature, \* local body_with_signature of SaveDraftTool._run
  email_content,  \* argument email_content of ServiceNowEmailParser._run
  ticket_info,    \* argument ticket_info of ServiceNowResponseGenerator._run
  response_type,  \* argument response_type of ServiceNowResponseGenerator._run
  parsed_info,    \* the record ServiceNowEmailParser._run returns
  response,       \* the text ServiceNowResponseGenerator._run returns
  http_status,    \* the status the HTTP endpoint answers with, 0 before it answers
  now,            \* the clock of the machine main.run runs on, in half seconds
  output,         \* the analysis files in the directory output: name and the email saved
  processed_emails \* processed_emails of main.run: the analysis file of each email

server == <<creds, lenient, inbox, accepts, indexes, faulty, mailboxes>>
args == <<subject, thread_info, organize_args, limit, email_id, max_depth,
          email_data,
          body,
          email_content,
          ticket_info,
          response_type>>
locals == <<drafts_folders, cand, drafts_folder, message>>
batch == <<emails, history, analysis,
          body_with_signature,
          parsed_info,
          response,
          http_status,
          now,
          output,
          processed_emails>>
vars == <<creds, lenient, inbox, accepts, indexes, faulty, mailboxes, mbox,
          calls, tool, pc, sess, bound, log, result, subject, thread_info,
          organize_args, limit, email_id, max_depth, email_data,
          drafts_folders, cand, drafts_folder, message, emails, history,
          analysis,
          body,
          body_with_signature,
          email_content,
          ticket_info,
          response_type,
          parsed_info,
          response,
          http_status,
          now,
          output,
          processed_emails>>

Ev(e, a, r) == [ev |-> e, arg |-> a, res |-> r]

NoResult == [kind |-> "NONE", subject |-> <<>>, folder |-> "", folders |-> <<>>]
Result(k, s, f, fs) == [kind |-> k, subject |-> s, folder |-> f, folders |-> fs]

NoMessage == [ok |-> FALSE, subject |-> <<>>, in_reply_to |-> "",
              references |-> <<>>]

\* The values of the locals and arguments a call does not use
NoHistory == [kind |-> "NONE", thread_messages |-> <<>>, message_count |-> 0,
              participants |-> {}]
NoAnalysis == [kind |-> "NONE", needs_response |-> FALSE, response_type |-> "",
               urgency |-> ""]
NoData == [subject |-> <<>>, sender |-> <<>>, body |-> <<>>,
           is_servicenow |-> FALSE, priority |-> "normal"]

\* An optional text: None, a str, or (in a dict) a key that is missing
Null == [k |-> "null", s |-> <<>>]
Absent == [k |-> "absent", s |-> <<>>]
Str(s) == [k |-> "str", s |-> s]

NoContent == <<>>
NoTicket == [ticket_number |-> Absent, ticket_type |-> Absent,
    state |-> Absent,
             priority |-> Absent, category |-> Absent]
NoResponse == [kind |-> "NONE", template |-> "", ticket_number |-> <<>>,
               ticket_type |-> <<>>, priority |-> <<>>, state |-> <<>>,
               category |-> <<>>]

NoThread == [present |-> FALSE, message_id |-> "", references |-> <<>>,
             thread_subject |-> <<>>, thread_messages |-> <<>>]

\* A message held by the server: the mailbox, the headers, the call that
\* appended it (0: it was there before), and whether SEARCH sees it.
Stored(f, m, c, ix) ==
  [folder |-> Mailbox(f), subject |-> m.subject, in_reply_to |-> m.in_reply_to,
   references |-> m.references, call |-> c, indexed |-> ix]

\* SEARCH SUBJECT "<subj>" in the selected folder: the messages the server
\* has indexed whose subject contains subj, letter case ignored
search_subject(f, subj) ==
  \E i \in 1..Len(mbox) :
    /\ mbox[i].folder = Mailbox(f)
    /\ mbox[i].indexed
    /\ Contains(Lower(mbox[i].subject), Lower(subj))

\* The environment variables EMAIL_ADDRESS and APP_PASSWORD: both set, or one
\* of them missing, or both
BOTH == "both"
Credentials == {BOTH, "no_address", "no_password", "neither"}

\* The outcomes a command can have: "OK", "NO" (the server refuses it) and
\* "RAISE" (imaplib raises: a BAD response, a broken connection).
Outcomes(set) == IF faulty THEN set ELSE set \cap {"OK"}

\* ------------------------------------------------------------------------
\* SaveDraftTool._run (lines 454-564)
\* ------------------------------------------------------------------------
SAVE_DRAFT == "save_draft"

\* return <r> inside the try block: the finally clause runs next
Return(r) == result' = r /\ pc' = "finally"

\* except Exception as e: return f"Error saving draft: {str(e)}"  (561-562)
SD_Except == Return(Result("ERR_EXC", <<>>, "", <<>>))

\* Line 459: mail, email_address = self._connect()  (lines 355-368).  With a
\* credential missing _connect raises ValueError before it opens a connection
\* (lines 360-361); _run's except clause catches that as it catches a failed
\* connection or login.
SD_Connect ==
  /\ tool = SAVE_DRAFT /\ pc = "connect"
  /\ IF creds # BOTH
     THEN /\ SD_Except
          /\ UNCHANGED <<sess, bound, log>>
     ELSE
     \E o \in {"OK"} \cup Outcomes({"NO_CONNECTION", "LOGIN_FAILED"}) :
       IF o = "OK"
       THEN /\ sess' = "auth"
            /\ bound' = TRUE
            /\ log' = log \o <<Ev("connect", "", "OK"), Ev("login", "", "OK")>>
            /\ pc' = "list"
            /\ UNCHANGED result
       ELSE /\ sess' = IF o = "LOGIN_FAILED" THEN "nonauth" ELSE "none"
            /\ bound' = FALSE
            /\ log' = IF o = "LOGIN_FAILED"
                      THEN log \o <<Ev("connect", "", "OK"),
                                    Ev("login", "", "RAISE")>>
                      ELSE Append(log, Ev("connect", "", "RAISE"))
            /\ SD_Except
  /\ UNCHANGED <<batch, server, mbox, calls, tool, args, locals>>

\* Line 462: drafts_folders = self._check_drafts_folder(mail)  (377-388)
SD_List ==
  /\ tool = SAVE_DRAFT /\ pc = "list"
  /\ \E o \in Outcomes({"OK", "NO", "RAISE"}) :
       /\ log' = Append(log, Ev("list", "", o))
       /\ IF o = "RAISE"
          THEN SD_Except /\ UNCHANGED <<drafts_folders, cand>>
          ELSE /\ drafts_folders' =
                    IF o = "OK" THEN check_drafts_folder(mailboxes) ELSE <<>>
               /\ cand' = 1
               /\ pc' = "select"
               /\ UNCHANGED result
  /\ UNCHANGED <<batch, server, mbox, calls, tool, sess, bound, args, drafts_folder,
                 message>>

\* Lines 465-485: select the first drafts folder the server accepts
SD_Select ==
  /\ tool = SAVE_DRAFT /\ pc = "select"
  /\ LET name == DraftCandidates[cand]
         answer == IF name \in accepts THEN "OK" ELSE "NO"
     IN \E o \in {answer} \cup Outcomes({"RAISE"}) :
          /\ log' = Append(log, Ev("select", name, o))
          /\ IF o = "OK"
             THEN /\ sess' = "selected"
                  /\ drafts_folder' = name
                  /\ pc' = "compose"
                  /\ UNCHANGED <<result, cand>>
             ELSE IF o = "NO"
             THEN /\ sess' = "auth"
                  /\ drafts_folder' = name
                  /\ IF cand < Len(DraftCandidates)
                     THEN cand' = cand + 1 /\ UNCHANGED <<pc, result>>
                     ELSE /\ Return(Result("ERR_FOLDER", <<>>, "", drafts_folders))
                          /\ UNCHANGED cand
             ELSE /\ SD_Except
                  /\ UNCHANGED <<sess, drafts_folder, cand>>
  /\ UNCHANGED <<batch, server, mbox, calls, tool, bound, args, drafts_folders, message>>

\* Line 345: re.sub(r'\[Your [Nn]ame\]', 'Reon', body)
YOUR_NAME == {<<"[","Y","o","u","r"," ","n","a","m","e","]">>,
              <<"[","Y","o","u","r"," ","N","a","m","e","]">>}
REON == <<"R","e","o","n">>

RECURSIVE sub_your_name(_)
sub_your_name(s) ==
  IF s = <<>> THEN <<>>
  ELSE IF \E tk \in YOUR_NAME : StartsWith(s, tk)
       THEN REON \o sub_your_name(SubSeq(s, 12, Len(s)))
       ELSE <<Head(s)>> \o sub_your_name(Tail(s))

\* Line 350: signature = "\n"
SIGNATURE == <<"\n">>

\* _format_body (lines 342-353): the name is put in, and the signature is
\* appended unless the text "[Your" or "[your" is still in the body
format_body(b) ==
  LET replaced == sub_your_name(b)
  IN IF ~Contains(replaced, <<"[","Y","o","u","r">>)
        /\ ~Contains(replaced, <<"[","y","o","u","r">>)
     THEN replaced \o SIGNATURE
     ELSE replaced

\* Lines 487-533: build the message
SD_Compose ==
  /\ tool = SAVE_DRAFT /\ pc = "compose"
  /\ LET m == compose(subject, thread_info)
     IN IF m.ok
        THEN /\ message' = m
             /\ log' = Append(log, Ev("compose", "", "OK"))
             /\ pc' = "append"
             /\ UNCHANGED result
        ELSE /\ SD_Except
             /\ log' = Append(log, Ev("compose", "", "RAISE"))
             /\ UNCHANGED message
  /\ body_with_signature' = format_body(body)
  /\ UNCHANGED <<processed_emails, output, now, http_status, response, parsed_info, emails, history, analysis, server, mbox, calls, tool, sess,
                 bound, args, drafts_folders, cand, drafts_folder>>

\* Mutant: the result of the append is not looked at
SD_Append_Unchecked ==
  /\ tool = SAVE_DRAFT /\ pc = "append"
  /\ \E o \in Outcomes({"OK", "NO"}) :
       /\ log' = Append(log, Ev("append", drafts_folder, o))
       /\ mbox' = IF o = "OK"
                  THEN Append(mbox, Stored(drafts_folder, message, calls, indexes))
                  ELSE mbox
       /\ pc' = "verify"
       /\ UNCHANGED result
  /\ UNCHANGED <<batch, server, calls, tool, sess, bound, args, locals>>

\* Lines 536-543: mail.append(drafts_folder, '\\Draft', date, ...)
SD_Append ==
  /\ tool = SAVE_DRAFT /\ pc = "append"
  /\ \E o \in Outcomes({"OK", "NO", "RAISE"}) :
       /\ log' = Append(log, Ev("append", drafts_folder, o))
       /\ IF o = "OK"
          THEN /\ mbox' = Append(mbox, Stored(drafts_folder, message, calls, indexes))
               /\ pc' = "verify"
               /\ UNCHANGED result
          ELSE IF o = "NO"
          THEN Return(Result("ERR_APPEND", <<>>, "", <<>>)) /\ UNCHANGED mbox
          ELSE SD_Except /\ UNCHANGED mbox
  /\ UNCHANGED <<batch, server, calls, tool, sess, bound, args, locals>>

\* SaveDraftTool._verify_draft_saved (lines 390-424), from the i-th folder on:
\* a folder that cannot be selected is skipped, the first folder in which the
\* search finds the subject is returned.  l and s are the log and the
\* session state so far.
RECURSIVE verify_draft_saved(_, _, _, _)
verify_draft_saved(i, subj, l, s) ==
  IF i > Len(VerifyFolders)
  THEN [found |-> FALSE, folder |-> "", log |-> l, sess |-> s]
  ELSE LET f == VerifyFolders[i]
       IN IF f \notin accepts
          THEN verify_draft_saved(i + 1, subj,
                                  Append(l, Ev("select", f, "NO")), "auth")
          ELSE IF search_subject(f, subj)
               THEN [found |-> TRUE, folder |-> f,
                     log |-> l \o <<Ev("select", f, "OK"), Ev("search", f, "OK")>>,
                     sess |-> "selected"]
               ELSE verify_draft_saved(i + 1, subj,
                      l \o <<Ev("select", f, "OK"), Ev("search", f, "EMPTY")>>,
                      "selected")

\* Lines 546-549: verify, and return VERIFIED if the draft was found
SD_Verify ==
  /\ tool = SAVE_DRAFT /\ pc = "verify"
  /\ LET v == verify_draft_saved(1, message.subject, log, sess)
     IN /\ log' = v.log
        /\ sess' = v.sess
        /\ IF v.found
           THEN Return(Result("VERIFIED", message.subject, v.folder, <<>>))
           ELSE pc' = "fallback" /\ UNCHANGED result
  /\ UNCHANGED <<batch, server, mbox, calls, tool, bound, args, locals>>

\* Lines 550-560: the verification failed; append to All Mail instead
SD_Fallback ==
  /\ tool = SAVE_DRAFT /\ pc = "fallback"
  /\ \E o \in Outcomes({"OK", "NO", "RAISE"}) :
       /\ log' = Append(log, Ev("append", ALL_MAIL, o))
       /\ IF o = "OK"
          THEN /\ mbox' = Append(mbox, Stored(ALL_MAIL, message, calls, indexes))
               /\ Return(Result("ALL_MAIL", message.subject, ALL_MAIL, <<>>))
          ELSE /\ Return(Result("WARNING", <<>>, "", <<>>))
               /\ UNCHANGED mbox
  /\ UNCHANGED <<batch, server, calls, tool, sess, bound, args, locals>>

\* Lines 563-564 and 370-375: finally: self._disconnect(mail).  With `mail`
\* unbound the finally clause raises UnboundLocalError, which replaces the
\* value being returned.
SD_Finally ==
  /\ tool = SAVE_DRAFT /\ pc = "finally"
  /\ IF bound
     THEN /\ log' = Append(log, Ev("logout", "", "OK"))
          /\ sess' = "logout"
          /\ UNCHANGED result
     ELSE /\ result' = Result("UNBOUND_LOCAL", <<>>, "", <<>>)
          /\ UNCHANGED <<log, sess>>
  /\ pc' = "done"
  /\ UNCHANGED <<batch, server, mbox, calls, tool, bound, args, locals>>

\* ------------------------------------------------------------------------
\* GmailToolBase (lines 95-129): the session of the tools derived from it
\* ------------------------------------------------------------------------
GET_UNREAD == "get_unread_emails"
THREAD_HISTORY == "get_thread_history"
CONTEXT_REPLY == "draft_contextual_reply"
ORGANIZE == "organize_email"
EMPTY_TRASH == "empty_gmail_trash"
GMAIL_READER == "Gmail Reader"

\* imaplib refuses FETCH, SEARCH, STORE, EXPUNGE and CLOSE on a session that
\* has no mailbox selected: it raises before sending anything.
Legal(s) == s = "selected"

\* The outcomes of a command that needs a selected mailbox
Selected(set) == IF Legal(sess) THEN Outcomes(set) ELSE {"ILLEGAL"}

\* mail = self._connect() (lines 110-120), outside the try block: a failure
\* propagates to the caller of _run.  With a credential missing the tool
\* object cannot be made (__init__, lines 103-108, raises ValueError), and
\* _run is never entered.
BaseConnect(t, next) ==
  /\ tool = t /\ pc = "connect"
  /\ IF creds # BOTH
     THEN /\ result' = Result("CONFIG_ERROR", <<>>, "", <<>>)
          /\ pc' = "done"
          /\ UNCHANGED <<sess, bound, log>>
     ELSE
     \E o \in {"OK"} \cup Outcomes({"NO_CONNECTION", "LOGIN_FAILED"}) :
       IF o = "OK"
       THEN /\ sess' = "auth"
            /\ bound' = TRUE
            /\ log' = log \o <<Ev("connect", "", "OK"), Ev("login", "", "OK")>>
            /\ pc' = next
            /\ UNCHANGED result
       ELSE /\ sess' = IF o = "LOGIN_FAILED" THEN "nonauth" ELSE "none"
            /\ bound' = FALSE
            /\ log' = IF o = "LOGIN_FAILED"
                      THEN log \o <<Ev("connect", "", "OK"),
                                    Ev("login", "", "RAISE")>>
                      ELSE Append(log, Ev("connect", "", "RAISE"))
            /\ result' = Result("CONNECTION_ERROR", <<>>, "", <<>>)
            /\ pc' = "done"
  /\ UNCHANGED <<batch, server, mbox, calls, tool, args, locals>>

\* mail.select("INBOX"), the first statement of the try block; its result is
\* not looked at.  `next` is where _run goes on.
BaseSelect(t, next) ==
  /\ tool = t /\ pc = "select"
  /\ \E o \in Outcomes({"OK", "NO", "RAISE"}) :
       /\ log' = Append(log, Ev("select", INBOX, o))
       /\ IF o = "RAISE"
          THEN Return(Result("ERROR", <<>>, "", <<>>)) /\ UNCHANGED sess
          ELSE /\ sess' = IF o = "OK" THEN "selected" ELSE "auth"
               /\ pc' = next
               /\ UNCHANGED result
  /\ UNCHANGED <<batch, server, mbox, calls, tool, bound, args, locals>>

\* finally: self._disconnect(mail) (lines 122-129): close, then logout, both
\* inside one try whose except clause passes.
BaseFinally(t) ==
  /\ tool = t /\ pc = "finally"
  /\ \E o \in Selected({"OK", "RAISE"}) :
       IF o = "OK"
       THEN /\ log' = log \o <<Ev("close", "", "OK"), Ev("logout", "", "OK")>>
            /\ sess' = "logout"
       ELSE /\ log' = Append(log, Ev("close", "", o))
            /\ UNCHANGED sess
  /\ pc' = "done"
  /\ UNCHANGED <<batch, server, mbox, calls, tool, bound, result, args, locals>>

\* A step of the try block that needs a selected mailbox, taken as a whole:
\* it returns `good` or, when a command is refused or raises, `bad`.
BaseStep(t, at, cmd, good, bad) ==
  /\ tool = t /\ pc = at
  /\ \E o \in Selected({"OK", "NO", "RAISE"}) :
       /\ log' = Append(log, Ev(cmd, "", o))
       /\ Return(Result(IF o = "OK" THEN good ELSE bad, <<>>, "", <<>>))
  /\ UNCHANGED <<batch, server, mbox, calls, tool, sess, bound, args, locals>>

\* ------------------------------------------------------------------------
\* The messages of INBOX and the search for a thread
\* ------------------------------------------------------------------------
\* A message of INBOX: its headers (sender, to and cc as the sets of
\* addresses the fields hold), whether it is unread, and whether a FETCH of
\* its sequence number still returns it (gone: the server answers OK with no
\* message data, as it does for a message another client has expunged).
Mail(id, irt, refs, d, from, to, cc) ==
  [message_id |-> id, in_reply_to |-> irt, references |-> refs, date |-> d,
   sender |-> from, to |-> to, cc |-> cc, unseen |-> TRUE, gone |-> FALSE]

Range(q) == { q[i] : i \in 1..Len(q) }

\* Lines 136-142 and 820-835: the ids of the Message-ID, In-Reply-To and
\* References headers of a message, empty strings dropped
thread_ids(m) ==
  ({m.message_id, m.in_reply_to} \cup Range(m.references)) \ {""}

\* HEADER Message-ID "<t>", HEADER References "<t>" or HEADER In-Reply-To "<t>"
\* holds of the message for some t of tids
Matches(m, tids) ==
  \/ m.message_id \in tids
  \/ m.in_reply_to \in tids
  \/ Range(m.references) \cap tids # {}

\* What a server that takes the keys joined by OR as their disjunction
\* answers: the sequence numbers of the matching messages, ascending
FoundIds(box, tids) ==
  SelectSeq([i \in 1..Len(box) |-> i], LAMBDA i : Matches(box[i], tids))

\* Lines 144-150 and 842-851 send the search keys joined by " OR ".  IMAP's OR
\* is a prefix operator of two keys (RFC 3501), so a server that follows the
\* grammar answers BAD and imaplib raises; a lenient server answers the
\* disjunction.
ThreadSearchOutcomes ==
  IF ~Legal(sess) THEN {"ILLEGAL"}
  ELSE IF ~lenient THEN {"RAISE"}
  ELSE Outcomes({"OK", "NO", "RAISE"})

\* The messages of a list of sequence numbers
MailsOf(box, ids) == [k \in 1..Len(ids) |-> box[ids[k]]]

\* list.sort(key=...) of lines 178-180 and 873-875: ascending, elements of
\* equal key kept in their order
RECURSIVE InsertAsc(_, _, _)
InsertAsc(box, x, q) ==
  IF q = <<>> THEN <<x>>
  ELSE IF SortKey(box[Head(q)]).t <= SortKey(box[x]).t
       THEN <<Head(q)>> \o InsertAsc(box, x, Tail(q))
       ELSE <<x>> \o q

RECURSIVE SortedAsc(_, _)
SortedAsc(box, ids) ==
  IF ids = <<>> THEN <<>>
  ELSE InsertAsc(box, ids[Len(ids)],
                 SortedAsc(box, SubSeq(ids, 1, Len(ids) - 1)))

\* The sequence numbers up to the first one whose message is gone: the
\* fetches made before msg_data[0][1] raises TypeError
RECURSIVE UntilGone(_, _)
UntilGone(box, ids) ==
  IF ids = <<>> \/ box[Head(ids)].gone THEN <<>>
  ELSE <<Head(ids)>> \o UntilGone(box, Tail(ids))

\* A fault of the connection during a loop of fetches: none (at = 0), or the
\* fetch of the at-th message is refused ("NO") or raises ("RAISE")
Faults(n) ==
  {[at |-> 0, kind |-> "NO"]}
    \cup (IF faulty THEN [at : 1..n, kind : {"NO", "RAISE"}] ELSE {})

\* ---- GetUnreadEmailsTool._run (lines 226-303)
GU_Connect == BaseConnect(GET_UNREAD, "select")
GU_Select == BaseSelect(GET_UNREAD, "search")

\* SEARCH UNSEEN: the sequence numbers of the unread messages, ascending
unread_ids(box) ==
  SelectSeq([i \in 1..Len(box) |-> i], LAMBDA i : box[i].unseen)

Reversed(q) == [i \in 1..Len(q) |-> q[Len(q) + 1 - i]]
FirstN(q, n) == SubSeq(q, 1, IF n < Len(q) THEN n ELSE Len(q))
LastN(q, n) == SubSeq(q, IF n < Len(q) THEN Len(q) - n + 1 ELSE 1, Len(q))

\* Lines 248-249: email_ids = list(reversed(email_ids))[:limit]
gu_email_ids(box, n) == FirstN(Reversed(unread_ids(box)), n)

\* Lines 235-246: search UNSEEN; return [] unless it finds something
GU_Search ==
  /\ tool = GET_UNREAD /\ pc = "search"
  /\ \E o \in Selected({"OK", "NO", "RAISE"}) :
       IF o = "OK" /\ unread_ids(inbox) # <<>>
       THEN /\ log' = Append(log, Ev("search", INBOX, "OK"))
            /\ pc' = "fetch"
            /\ UNCHANGED result
       ELSE /\ log' = Append(log, Ev("search", INBOX,
                                     IF o = "OK" THEN "EMPTY" ELSE o))
            /\ Return(Result("EMPTY_LIST", <<>>, "", <<>>))
  /\ UNCHANGED <<batch, server, mbox, calls, tool, sess, bound, args, locals>>

\* GmailToolBase._get_thread_messages (lines 131-182) for message m, the
\* search answering o.  The search and the fetches stand in a try block whose
\* except clause keeps what was collected (lines 152-175); the sort of line
\* 178 stands outside it.
get_thread_messages(box, m, o) ==
  LET found == IF thread_ids(m) # {} /\ o = "OK"
               THEN UntilGone(box, FoundIds(box, thread_ids(m)))
               ELSE <<>>
  IN IF SortRaises(MailsOf(box, found))
     THEN [raised |-> TRUE, messages |-> <<>>]
     ELSE [raised |-> FALSE, messages |-> SortedAsc(box, found)]

\* Line 276: "\n\n--- Previous Messages ---\n".join([current_body] +
\* thread_messages): the elements of thread_messages are dictionaries, and
\* str.join raises TypeError on an element that is not a string.
join_raises(thread_messages) == thread_messages # <<>>

\* Lines 252-294, from the k-th message of email_ids on: the email_ids of the
\* tuples appended to emails, or raised if an exception leaves the loop
RECURSIVE gu_loop(_, _, _, _, _)
gu_loop(box, ids, k, fault, o) ==
  IF k > Len(ids) THEN [raised |-> FALSE, emails |-> <<>>]
  ELSE LET rest == gu_loop(box, ids, k + 1, fault, o)
           thread == get_thread_messages(box, box[ids[k]], o)
       IN IF fault.at = k /\ fault.kind = "NO" THEN rest
          ELSE IF \/ fault.at = k /\ fault.kind = "RAISE"
                  \/ box[ids[k]].gone
                  \/ thread.raised
                  \/ join_raises(thread.messages)
                  \/ rest.raised
               THEN [raised |-> TRUE, emails |-> <<>>]
               ELSE [raised |-> FALSE, emails |-> <<ids[k]>> \o rest.emails]

\* Lines 248-300: fetch and decode the unread messages; the except clause of
\* line 297 returns []
GU_Fetch ==
  /\ tool = GET_UNREAD /\ pc = "fetch"
  /\ \E fault \in Faults(Len(gu_email_ids(inbox, limit))),
        o \in ThreadSearchOutcomes :
       LET r == gu_loop(inbox, gu_email_ids(inbox, limit), 1, fault, o)
       IN /\ log' = Append(log, Ev("fetch", "",
                                   IF r.raised THEN "RAISE" ELSE "OK"))
          /\ emails' = r.emails
          /\ Return(Result(IF r.raised THEN "EMPTY_LIST" ELSE "EMAILS",
                           <<>>, "", <<>>))
  /\ UNCHANGED <<processed_emails, output, now, http_status, response, parsed_info, body_with_signature, history, analysis, server, mbox, calls, tool, sess, bound,
                 args, locals>>
GU_Finally == BaseFinally(GET_UNREAD)

\* ---- GetThreadHistoryTool._run (lines 796-893)
TH_Connect == BaseConnect(THREAD_HISTORY, "select")
TH_Select == BaseSelect(THREAD_HISTORY, "fetch")

\* A FETCH of sequence number id answers with the message
Present(box, id) == id \in 1..Len(box) /\ ~box[id].gone

\* Lines 853-860: the ids the search returns, cut to the first max_depth
th_found_ids(box, m, depth, o) ==
  IF thread_ids(m) # {} /\ o = "OK"
  THEN FirstN(FoundIds(box, thread_ids(m)), depth)
  ELSE <<>>

\* Lines 863-869, from the k-th of found_ids on: the messages appended to
\* thread_messages, or raised if an exception leaves the loop.  The id of the
\* seed is skipped, a fetch that is refused is skipped, and msg_data[0][1]
\* raises TypeError on a message that is gone.
RECURSIVE th_loop(_, _, _, _, _)
th_loop(box, ids, k, seed, fault) ==
  IF k > Len(ids) THEN [raised |-> FALSE, messages |-> <<>>]
  ELSE LET rest == th_loop(box, ids, k + 1, seed, fault)
       IN IF ids[k] = seed THEN rest
          ELSE IF fault.at = k /\ fault.kind = "NO" THEN rest
          ELSE IF \/ fault.at = k /\ fault.kind = "RAISE"
                  \/ box[ids[k]].gone
                  \/ rest.raised
               THEN [raised |-> TRUE, messages |-> <<>>]
               ELSE [raised |-> FALSE, messages |-> <<ids[k]>> \o rest.messages]

\* _extract_participants (lines 939-951): the addresses of the fields
\* 'sender', 'to', 'cc' and 'bcc' of the message dictionaries.  The
\* dictionaries of _process_message (lines 918-927) have no 'cc' and no 'bcc'.
extract_participants(box, ids) ==
  UNION { box[ids[k]].sender \cup box[ids[k]].to : k \in 1..Len(ids) }

\* {"error": str(e)} (lines 886-890), and the error of line 815
HistoryError ==
  [kind |-> "ERROR", thread_messages |-> <<>>, message_count |-> 0,
   participants |-> {}]

\* Lines 817-884 for the seed message, the search answering o: the root
\* first, then the messages found; the sort of lines 873-875; the dictionary
\* of lines 878-884.  Any exception gives the error dictionary.
thread_history(box, seed, depth, o, fault) ==
  LET ids == th_found_ids(box, box[seed], depth, o)
      l == th_loop(box, ids, 1, seed, fault)
      msgs == <<seed>> \o l.messages
  IN IF \/ thread_ids(box[seed]) # {} /\ o \in {"RAISE", "ILLEGAL"}
        \/ l.raised
        \/ SortRaises(MailsOf(box, msgs))
     THEN HistoryError
     ELSE [kind |-> "HISTORY", thread_messages |-> SortedAsc(box, msgs),
           message_count |-> Len(msgs),
           participants |-> extract_participants(box, msgs)]

\* Lines 812-885: fetch the message, search its thread, fetch the matches,
\* sort and return; the finally clause follows.
TH_Fetch ==
  /\ tool = THREAD_HISTORY /\ pc = "fetch"
  /\ \E o1 \in Selected({"OK", "NO", "RAISE"}) :
       IF o1 = "OK" /\ Present(inbox, email_id)
       THEN \E o \in ThreadSearchOutcomes, fault \in Faults(max_depth) :
              LET h == thread_history(inbox, email_id, max_depth, o, fault)
              IN /\ log' = Append(log, Ev("fetch", "", "OK"))
                 /\ history' = h
                 /\ Return(Result(h.kind, <<>>, "", <<>>))
       ELSE /\ log' = Append(log, Ev("fetch", "", o1))
            /\ history' = HistoryError
            /\ Return(Result("ERROR", <<>>, "", <<>>))
  /\ UNCHANGED <<processed_emails, output, now, http_status, response, parsed_info, body_with_signature, emails, analysis, server, mbox, calls, tool, sess, bound,
                 args, locals>>
TH_Finally == BaseFinally(THREAD_HISTORY)

\* ---- GmailOrganizeTool._run (lines 584-627)
URGENT_CATEGORY == "Urgent Response Needed"
HIGH == "High"
URGENT_LABEL == "URGENT"

OR_Connect == BaseConnect(ORGANIZE, "select")
OR_Select == BaseSelect(ORGANIZE, "store")

\* Lines 599-609: the labels to apply
organize_labels(a) ==
  IF a.category = URGENT_CATEGORY /\ a.priority = HIGH
       /\ ~(\E i \in 1..Len(a.labels) : a.labels[i] = URGENT_LABEL)
  THEN Append(a.labels, URGENT_LABEL)
  ELSE a.labels

\* Lines 612-620: create and apply each label
RECURSIVE label_commands(_)
label_commands(labels) ==
  IF labels = <<>> THEN <<>>
  ELSE <<Ev("create", Head(labels), "OK"), Ev("store", Head(labels), "OK")>>
       \o label_commands(Tail(labels))

\* Lines 599-620: the commands _run issues after the select, in order
organize_commands(a) ==
  (IF a.category = URGENT_CATEGORY /\ a.priority = HIGH
   THEN (IF a.should_star THEN <<Ev("store", "\\Flagged", "OK")>> ELSE <<>>)
        \o <<Ev("store", "\\Important", "OK")>>
   ELSE <<>>)
  \o label_commands(organize_labels(a))

\* Line 622: the value written after 'Starred=' in the summary
summary_starred(a) == a.should_star

\* The commands of cmds that can raise: every one on a faulty connection, and
\* a STORE whenever no mailbox is selected (a failing CREATE is passed over)
Raising(cmds) ==
  { i \in 1..Len(cmds) :
      cmds[i].ev = "store" /\ (faulty \/ ~Legal(sess)) }

\* Lines 598-625: issue the commands; the first STORE that raises ends the
\* call with an error string, otherwise the summary is returned.
OR_Store ==
  /\ tool = ORGANIZE /\ pc = "store"
  /\ LET cmds == organize_commands(organize_args)
         stops == IF Legal(sess)
                  THEN Raising(cmds) \cup {Len(cmds) + 1}
                  ELSE IF Raising(cmds) = {} THEN {Len(cmds) + 1}
                       ELSE {CHOOSE i \in Raising(cmds) :
                               \A j \in Raising(cmds) : i <= j}
     IN \E k \in stops :
          IF k > Len(cmds)
          THEN /\ log' = log \o cmds
               /\ Return(Result("ORGANIZED", <<>>, "", organize_labels(organize_args)))
          ELSE /\ log' = log \o SubSeq(cmds, 1, k - 1)
                         \o <<Ev("store", cmds[k].arg,
                                 IF Legal(sess) THEN "RAISE" ELSE "ILLEGAL")>>
               /\ Return(Result("ERROR", <<>>, "", <<>>))
  /\ UNCHANGED <<batch, server, mbox, calls, tool, sess, bound, args, locals>>

OR_Finally == BaseFinally(ORGANIZE)

\* ---- ContextAwareReplyTool._run (lines 971-1046)
\* Lines 998-1005: the subject of the reply when the caller gave none
contextual_subject(subj, original_subject) ==
  IF subj = <<>> \/ Strip(subj) = <<>>
  THEN IF original_subject = <<>> \/ Strip(original_subject) = <<>>
       THEN RE_NO_SUBJECT
       ELSE IF ~StartsWith(Lower(original_subject), RE_COLON)
            THEN RE_PREFIX \o original_subject
            ELSE original_subject
  ELSE subj

CAR_Connect == BaseConnect(CONTEXT_REPLY, "fetch")

\* Lines 978-1044.  The fetch of line 979 is issued on the session as
\* _connect left it, without a select.  When the fetch returns the message,
\* the subject is chosen and the draft is built from it and from the thread
\* context (lines 986-1036).
CAR_Fetch ==
  /\ tool = CONTEXT_REPLY /\ pc = "fetch"
  /\ \E o \in Selected({"OK", "NO", "RAISE"}) :
       /\ log' = Append(log, Ev("fetch", "", o))
       /\ IF o = "OK"
          THEN \E orig \in {S_EMPTY, S_STATUS, S_RE_STATUS} :
                 LET m == compose(contextual_subject(subject, orig),
                                  [thread_info EXCEPT !.present = TRUE])
                 IN /\ message' = m
                    /\ Return(Result(IF m.ok THEN "DRAFTED" ELSE "ERR_EXC",
                                     m.subject, "", <<>>))
          ELSE Return(Result("ERROR", <<>>, "", <<>>)) /\ UNCHANGED message
  /\ UNCHANGED <<batch, server, mbox, calls, tool, sess, bound, args,
                 drafts_folders, cand, drafts_folder>>

CAR_Finally == BaseFinally(CONTEXT_REPLY)

\* ---- EmptyTrashTool._run (lines 714-771)
\* Lines 719 and 692-705: a failure to connect is caught by _run's except
\* clause, leaving `mail` unbound for the finally clause.
ET_Connect ==
  /\ tool = EMPTY_TRASH /\ pc = "connect"
  /\ IF creds # BOTH
     THEN /\ Return(Result("ERROR", <<>>, "", <<>>))
          /\ UNCHANGED <<sess, bound, log>>
     ELSE
     \E o \in {"OK"} \cup Outcomes({"NO_CONNECTION", "LOGIN_FAILED"}) :
       IF o = "OK"
       THEN /\ sess' = "auth"
            /\ bound' = TRUE
            /\ log' = log \o <<Ev("connect", "", "OK"), Ev("login", "", "OK")>>
            /\ pc' = "empty"
            /\ UNCHANGED result
       ELSE /\ sess' = IF o = "LOGIN_FAILED" THEN "nonauth" ELSE "none"
            /\ bound' = FALSE
            /\ log' = IF o = "LOGIN_FAILED"
                      THEN log \o <<Ev("connect", "", "OK"),
                                    Ev("login", "", "RAISE")>>
                      ELSE Append(log, Ev("connect", "", "RAISE"))
            /\ Return(Result("ERROR", <<>>, "", <<>>))
  /\ UNCHANGED <<batch, server, mbox, calls, tool, args, locals>>

\* Lines 721-766: try the trash folders in turn; in the first one that can be
\* selected and searched, flag every message deleted and expunge.
ET_Empty ==
  /\ tool = EMPTY_TRASH /\ pc = "empty"
  /\ \E o \in {"EMPTIED", "ALREADY_EMPTY", "NOT_FOUND"} :
       /\ log' = log \o (IF o = "NOT_FOUND"
                         THEN <<Ev("select", "\"[Gmail]/Trash\"", "NO")>>
                         ELSE <<Ev("select", "\"[Gmail]/Trash\"", "OK"),
                                Ev("search", "\"[Gmail]/Trash\"", "OK")>>)
                      \o (IF o = "EMPTIED"
                          THEN <<Ev("store", "\\Deleted", "OK"),
                                 Ev("expunge", "", "OK")>>
                          ELSE <<>>)
       /\ sess' = IF o = "NOT_FOUND" THEN "auth" ELSE "selected"
       /\ Return(Result(o, <<>>, "", <<>>))
  /\ UNCHANGED <<batch, server, mbox, calls, tool, bound, args, locals>>

\* Lines 770-771 and 707-712: finally: self._disconnect(mail), a logout
ET_Finally ==
  /\ tool = EMPTY_TRASH /\ pc = "finally"
  /\ IF bound
     THEN /\ log' = Append(log, Ev("logout", "", "OK"))
          /\ sess' = "logout"
          /\ UNCHANGED result
     ELSE /\ result' = Result("UNBOUND_LOCAL", <<>>, "", <<>>)
          /\ UNCHANGED <<log, sess>>
  /\ pc' = "done"
  /\ UNCHANGED <<batch, server, mbox, calls, tool, bound, args, locals>>

\* ---- GmailReaderTool._run (gmail_reader.py, lines 35-97)
\* Lines 47-48: connect and log in, inside the try block.  With a credential
\* missing __init__ (lines 27-33) raises ValueError.
GR_Connect ==
  /\ tool = GMAIL_READER /\ pc = "connect"
  /\ IF creds # BOTH
     THEN /\ result' = Result("CONFIG_ERROR", <<>>, "", <<>>)
          /\ pc' = "done"
          /\ UNCHANGED <<sess, bound, log>>
     ELSE
     \E o \in {"OK"} \cup Outcomes({"NO_CONNECTION", "LOGIN_FAILED"}) :
       IF o = "OK"
       THEN /\ sess' = "auth"
            /\ bound' = TRUE
            /\ log' = log \o <<Ev("connect", "", "OK"), Ev("login", "", "OK")>>
            /\ pc' = "select"
            /\ UNCHANGED result
       ELSE /\ sess' = IF o = "LOGIN_FAILED" THEN "nonauth" ELSE "none"
            /\ bound' = FALSE
            /\ log' = IF o = "LOGIN_FAILED"
                      THEN log \o <<Ev("connect", "", "OK"),
                                    Ev("login", "", "RAISE")>>
                      ELSE Append(log, Ev("connect", "", "RAISE"))
            /\ result' = Result("ERROR", <<>>, "", <<>>)
            /\ pc' = "done"
  /\ UNCHANGED <<batch, server, mbox, calls, tool, args, locals>>

\* Line 51: mail.select("inbox"); an exception is caught at line 96, and the
\* error dictionary is returned
GR_Select ==
  /\ tool = GMAIL_READER /\ pc = "select"
  /\ \E o \in Outcomes({"OK", "NO", "RAISE"}) :
       /\ log' = Append(log, Ev("select", INBOX, o))
       /\ IF o = "RAISE"
          THEN /\ result' = Result("ERROR", <<>>, "", <<>>)
               /\ pc' = "done"
               /\ UNCHANGED sess
          ELSE /\ sess' = IF o = "OK" THEN "selected" ELSE "auth"
               /\ pc' = "search"
               /\ UNCHANGED result
  /\ UNCHANGED <<batch, server, mbox, calls, tool, bound, args, locals>>

\* Lines 54-62: search UNSEEN; the two early returns and the except clause
\* of line 96 return at once
GR_Search ==
  /\ tool = GMAIL_READER /\ pc = "search"
  /\ \E o \in Selected({"OK", "NO", "RAISE"}) :
       IF o = "OK" /\ unread_ids(inbox) # <<>>
       THEN /\ log' = Append(log, Ev("search", INBOX, "OK"))
            /\ pc' = "fetch"
            /\ UNCHANGED result
       ELSE /\ log' = Append(log, Ev("search", INBOX,
                                     IF o = "OK" THEN "EMPTY" ELSE o))
            /\ result' = Result(IF o = "OK" THEN "NO_UNREAD" ELSE "ERROR",
                                <<>>, "", <<>>)
            /\ pc' = "done"
  /\ UNCHANGED <<batch, server, mbox, calls, tool, sess, bound, args, locals>>

\* Line 65: email_ids = email_ids[-limit:] if len(email_ids) > limit
gr_email_ids(box, n) == LastN(unread_ids(box), n)

\* Lines 69-88, from the k-th message of email_ids on: each message is handled
\* in a try block of its own, and a message that cannot be fetched or decoded
\* is left out
RECURSIVE gr_loop(_, _, _, _)
gr_loop(box, ids, k, fault) ==
  IF k > Len(ids) THEN <<>>
  ELSE IF fault.at = k \/ box[ids[k]].gone
       THEN gr_loop(box, ids, k + 1, fault)
       ELSE <<ids[k]>> \o gr_loop(box, ids, k + 1, fault)

\* Lines 65-94: fetch each message (a failure skips the message), then close
\* and log out; an exception raised by close or logout is caught at line 96
GR_Fetch ==
  /\ tool = GMAIL_READER /\ pc = "fetch"
  /\ \E o \in Outcomes({"OK", "RAISE"}),
        fault \in Faults(Len(gr_email_ids(inbox, limit))) :
       IF o = "OK"
       THEN /\ log' = log \o <<Ev("fetch", "", "OK"), Ev("close", "", "OK"),
                               Ev("logout", "", "OK")>>
            /\ sess' = "logout"
            /\ emails' = gr_loop(inbox, gr_email_ids(inbox, limit), 1, fault)
            /\ result' = Result("EMAILS", <<>>, "", <<>>)
       ELSE /\ log' = log \o <<Ev("fetch", "", "OK"), Ev("close", "", "RAISE")>>
            /\ UNCHANGED <<sess, emails>>
            /\ result' = Result("ERROR", <<>>, "", <<>>)
  /\ pc' = "done"
  /\ UNCHANGED <<processed_emails, output, now, http_status, response, parsed_info, body_with_signature, history, analysis, server, mbox, calls, tool, bound, args,
                 locals>>

\* ------------------------------------------------------------------------
\* EmailAnalysisTool (email_tools.py, lines 16-98)
\* ------------------------------------------------------------------------
ANALYSIS == "Email Analysis Tool"

\* Lines 70-74
no_response_indicators ==
  {<<"n","o","-","r","e","p","l","y">>, <<"n","o","r","e","p","l","y">>,
   <<"d","o","-","n","o","t","-","r","e","p","l","y">>,
   <<"n","e","w","s","l","e","t","t","e","r">>,
   <<"a","u","t","o","m","a","t","e","d">>,
   <<"m","a","r","k","e","t","i","n","g">>,
   <<"p","r","o","m","o","t","i","o","n">>,
   <<"u","n","s","u","b","s","c","r","i","b","e">>,
   <<"n","o","t","i","f","i","c","a","t","i","o","n"," ","o","n","l","y">>,
   <<"f","o","r"," ","y","o","u","r"," ","i","n","f","o","r","m","a","t","i","o","n">>,
   <<"f","y","i">>}

\* Lines 77-81
response_indicators ==
  {<<"p","l","e","a","s","e">>, <<"r","e","q","u","e","s","t">>,
   <<"n","e","e","d">>, <<"h","e","l","p">>,
   <<"q","u","e","s","t","i","o","n">>, <<"?">>,
   <<"m","e","e","t","i","n","g">>, <<"s","c","h","e","d","u","l","e">>,
   <<"u","r","g","e","n","t">>, <<"a","s","a","p">>,
   <<"r","e","s","p","o","n","d">>, <<"r","e","p","l","y">>,
   <<"f","e","e","d","b","a","c","k">>, <<"a","p","p","r","o","v","a","l">>,
   <<"c","o","n","f","i","r","m">>}

\* Line 83: f"{subject} {sender} {body}".lower()
text_to_check(subj, sender, content) ==
  Lower(subj \o <<" ">> \o sender \o <<" ">> \o content)

\* any(indicator in text for indicator in indicators)
ContainsAny(text, indicators) == \E p \in indicators : Contains(text, p)

needs_response_TicketFirst(subj, sender, content, is_servicenow) ==
  IF is_servicenow THEN TRUE
  ELSE ~ContainsAny(text_to_check(subj, sender, content), no_response_indicators)

\* _needs_response (lines 66-98)
needs_response(subj, sender, content, is_servicenow) ==
  LET text == text_to_check(subj, sender, content)
  IN IF ContainsAny(text, no_response_indicators) THEN FALSE
     ELSE IF is_servicenow THEN TRUE
     ELSE IF ContainsAny(text, response_indicators) THEN TRUE
     ELSE TRUE

\* Line 103 and line 130: f"{subject} {body}".lower()
subject_and_body(subj, content) == Lower(subj \o <<" ">> \o content)

determine_response_type_QuestionFirst(subj, content, is_servicenow) ==
  LET text == subject_and_body(subj, content)
  IN IF ContainsAny(text, {<<"q","u","e","s","t","i","o","n">>, <<"?">>})
     THEN "question_answer"
     ELSE IF ContainsAny(text, {<<"m","e","e","t","i","n","g">>, <<"s","c","h","e","d","u","l","e">>})
     THEN "meeting_response"
     ELSE "general_response"

\* _determine_response_type (lines 100-122)
determine_response_type(subj, content, is_servicenow) ==
  LET text == subject_and_body(subj, content)
      has(a, b) == ContainsAny(text, {a, b})
  IN IF is_servicenow
     THEN IF has(<<"i","n","c","i","d","e","n","t">>, <<"i","n","c">>)
          THEN "servicenow_incident_response"
          ELSE IF has(<<"r","e","q","u","e","s","t">>, <<"r","e","q">>)
          THEN "servicenow_request_response"
          ELSE "servicenow_general_response"
     ELSE IF has(<<"m","e","e","t","i","n","g">>, <<"s","c","h","e","d","u","l","e">>)
     THEN "meeting_response"
     ELSE IF has(<<"q","u","e","s","t","i","o","n">>, <<"?">>)
     THEN "question_answer"
     ELSE IF has(<<"a","p","p","r","o","v","a","l">>, <<"a","p","p","r","o","v","e">>)
     THEN "approval_response"
     ELSE IF ContainsAny(text, {<<"t","h","a","n","k">>})
     THEN "acknowledgment"
     ELSE "general_response"

\* Lines 132-135
high_urgency_indicators ==
  {<<"u","r","g","e","n","t">>, <<"a","s","a","p">>,
   <<"i","m","m","e","d","i","a","t","e">>,
   <<"e","m","e","r","g","e","n","c","y">>,
   <<"c","r","i","t","i","c","a","l">>, <<"d","e","a","d","l","i","n","e">>,
   <<"t","o","d","a","y">>, <<"n","o","w">>}

determine_urgency_FlagFirst(subj, content, priority, is_servicenow) ==
  IF priority = "high" THEN "high"
  ELSE IF is_servicenow THEN "medium"
  ELSE IF ContainsAny(subject_and_body(subj, content), high_urgency_indicators)
  THEN "high"
  ELSE "low"

\* _determine_urgency (lines 124-142)
determine_urgency(subj, content, priority, is_servicenow) ==
  IF priority = "high" THEN "high"
  ELSE IF ContainsAny(subject_and_body(subj, content), high_urgency_indicators)
  THEN "high"
  ELSE IF is_servicenow THEN "medium"
  ELSE "low"

\* EmailAnalysisTool._run on the dictionary d (lines 33-61)
analyse(d) ==
  [kind |-> "ANALYSIS",
   needs_response |-> needs_response(d.subject, d.sender, d.body,
                                     d.is_servicenow),
   response_type |-> determine_response_type(d.subject, d.body,
                                             d.is_servicenow),
   urgency |-> determine_urgency(d.subject, d.body, d.priority,
                                 d.is_servicenow)]

\* _run (lines 22-64): the fields of email_data are read and classified; the
\* tool opens no connection.  pc = "connect" is the entry of _run.
EA_Run ==
  /\ tool = ANALYSIS /\ pc = "connect"
  /\ analysis' = analyse(email_data)
  /\ result' = Result("ANALYSIS", <<>>, "", <<>>)
  /\ pc' = "done"
  /\ UNCHANGED <<processed_emails, output, now, http_status, response, parsed_info, body_with_signature, emails, history, server, mbox, calls, tool, sess, bound, log,
                 args, locals>>

\* ------------------------------------------------------------------------
\* ServiceNowEmailParser (gmail_tools.py, lines 1105-1257)
\* ------------------------------------------------------------------------
PARSER == "ServiceNow Email Parser"

Digits == {"0", "1", "2", "3", "4", "5", "6", "7", "8", "9"}

\* The pattern p, matched without regard to case, begins at position i
MatchesAt(text, i, p) ==
  /\ i + Len(p) - 1 <= Len(text)
  /\ Lower(SubSeq(text, i, i + Len(p) - 1)) = Lower(p)

\* \d{7} begins at position i
SevenDigits(text, i) ==
  /\ i + 6 <= Len(text)
  /\ \A j \in i..(i + 6) : text[j] \in Digits

\* [A-Z]{3} under re.IGNORECASE begins at position i
ThreeLetters(text, i) ==
  /\ i + 2 <= Len(text)
  /\ \A j \in i..(i + 2) :
       \E n \in 1..Len(LowerLetters) : LowerLetters[n] = LowerChar(text[j])

\* The position after \s*, matched greedily from position i
RECURSIVE SkipSpace(_, _)
SkipSpace(text, i) ==
  IF i <= Len(text) /\ IsSpace(text[i]) THEN SkipSpace(text, i + 1) ELSE i

Least(S) == CHOOSE i \in S : \A j \in S : i <= j

\* re.search(r'(INC\d{7})', text, re.IGNORECASE) and its like (lines
\* 1139-1142): the leftmost match, as it is written in the text
search_prefixed(text, prefix) ==
  LET at == { i \in 1..Len(text) :
                MatchesAt(text, i, prefix)
                /\ SevenDigits(text, i + Len(prefix)) }
  IN IF at = {} THEN Null
     ELSE Str(SubSeq(text, Least(at), Least(at) + Len(prefix) + 6))

\* re.search(r'Incident Number:\s*([A-Z]{3}\d{7})', ...) (lines 1143-1144)
search_numbered(text, label) ==
  LET start(i) == SkipSpace(text, i + Len(label))
      at == { i \in 1..Len(text) :
                MatchesAt(text, i, label)
                /\ ThreeLetters(text, start(i))
                /\ SevenDigits(text, start(i) + 3) }
  IN IF at = {} THEN Null
     ELSE Str(SubSeq(text, start(Least(at)), start(Least(at)) + 9))

\* The first pattern of a list that matches
RECURSIVE FirstMatch(_)
FirstMatch(found) ==
  IF found = <<>> THEN Null
  ELSE IF Head(found).k = "str" THEN Head(found)
  ELSE FirstMatch(Tail(found))

\* _extract_ticket_number (lines 1136-1151)
extract_ticket_number(text) ==
  FirstMatch(<<search_prefixed(text, <<"I","N","C">>),
               search_prefixed(text, <<"R","E","Q">>),
               search_prefixed(text, <<"C","H","G">>),
               search_prefixed(text, <<"R","I","T","M">>),
               search_numbered(text, <<"I","n","c","i","d","e","n","t"," ",
                   "N","u","m","b","e","r",":">>),
               search_numbered(text, <<"R","e","q","u","e","s","t"," ","N",
                   "u","m","b","e","r",":">>)>>)

\* _extract_ticket_type (lines 1153-1163): startswith regards case
extract_ticket_type(text) ==
  LET ticket_num == extract_ticket_number(text)
  IN IF ticket_num.k # "str" THEN Null
     ELSE IF StartsWith(ticket_num.s, <<"I","N","C">>) THEN Str(<<"I","n","c",
         "i","d","e","n","t">>)
     ELSE IF StartsWith(ticket_num.s, <<"R","E","Q">>)
             \/ StartsWith(ticket_num.s, <<"R","I","T","M">>) THEN Str(<<"R",
                 "e","q","u","e","s","t">>)
     ELSE IF StartsWith(ticket_num.s, <<"C","H","G">>) THEN Str(<<"C","h","a",
         "n","g","e">>)
     ELSE Null

\* The class [^\\n] of the raw patterns: every character but the backslash
\* and the letter n, which re.IGNORECASE takes in either case
InClass(c) == c \notin {"\\", "n", "N"}

\* The end of the longest run of class characters that begins at i
RECURSIVE RunEnd(_, _)
RunEnd(text, i) ==
  IF i + 1 <= Len(text) /\ InClass(text[i + 1]) THEN RunEnd(text, i + 1)
  ELSE i

\* re.search(label + r'\s*([^\\n]+)', text, re.IGNORECASE): \s* gives one
\* space back when no class character follows the spaces
search_labelled(text, label) ==
  LET from(i) == i + Len(label)
      start(i) == SkipSpace(text, from(i))
      group(i) ==
        IF start(i) <= Len(text) /\ InClass(text[start(i)])
        THEN Str(SubSeq(text, start(i), RunEnd(text, start(i))))
        ELSE IF start(i) > from(i) THEN Str(<<text[start(i) - 1]>>)
        ELSE Null
      at == { i \in 1..Len(text) :
                MatchesAt(text, i, label) /\ group(i).k = "str" }
  IN IF at = {} THEN Null ELSE Str(Strip(group(Least(at)).s))

\* _extract_state (lines 1165-1177)
extract_state(text) ==
  FirstMatch(<<search_labelled(text, <<"S","t","a","t","e",":">>),
               search_labelled(text, <<"S","t","a","t","u","s",":">>),
               search_labelled(text, <<"C","u","r","r","e","n","t"," ","S",
                   "t","a","t","e",":">>)>>)

\* _extract_priority (lines 1179-1190)
extract_priority(text) ==
  FirstMatch(<<search_labelled(text, <<"P","r","i","o","r","i","t","y",":">>),
               search_labelled(text, <<"P","r","i","o","r","i","t","y"," ",
                   "L","e","v","e","l",":">>)>>)

\* _extract_category (lines 1192-1203)
extract_category(text) ==
  FirstMatch(<<search_labelled(text, <<"C","a","t","e","g","o","r","y",":">>),
               search_labelled(text, <<"S","e","r","v","i","c","e"," ","C",
                   "a","t","e","g","o","r","y",":">>)>>)

\* parsed_info (lines 1119-1129), as json.dumps writes it and json.loads reads
\* it back: None is null, a str is itself.  The four fields the response
\* generator never reads are left out.
parse(text) ==
  [ticket_number |-> extract_ticket_number(text),
   ticket_type |-> extract_ticket_type(text),
   state |-> extract_state(text),
   priority |-> extract_priority(text),
   category |-> extract_category(text)]

\* _run (lines 1109-1134) on a plain text, which BeautifulSoup.get_text
\* returns as it is; the tool opens no connection
SN_Parse ==
  /\ tool = PARSER /\ pc = "connect"
  /\ parsed_info' = parse(email_content)
  /\ result' = Result("PARSED", <<>>, "", <<>>)
  /\ pc' = "done"
  /\ UNCHANGED <<processed_emails, output, now, http_status, response, body_with_signature, emails, history, analysis,
                 server, mbox, calls, tool, sess, bound, log, args, locals>>

\* ------------------------------------------------------------------------
\* ServiceNowResponseGenerator (gmail_tools.py, lines 1259-1410)
\* ------------------------------------------------------------------------
GENERATOR == "ServiceNow Response Generator"

UNKNOWN == <<"U","n","k","n","o","w","n">>

\* dict.get(key, default) on a field of ticket_data
get(v, default) == IF v.k = "absent" THEN Str(default) ELSE v

\* A value as an f-string writes it: None is written 'None'
fmt(v) == IF v.k = "null" THEN <<"N","o","n","e">> ELSE v.s

Rendered(tpl, n, t, p, s, c) ==
  [kind |-> "TEXT", template |-> tpl, ticket_number |-> n, ticket_type |-> t,
   priority |-> p, state |-> s, category |-> c]

\* The return value "Error generating response: ..." of the except clause
\* (lines 1284-1285)
GenerationError ==
  [kind |-> "ERROR", template |-> "", ticket_number |-> <<>>,
   ticket_type |-> <<>>, priority |-> <<>>, state |-> <<>>, category |-> <<>>]

\* ticket_type.lower() (lines 1298, 1305) raises AttributeError on None
acknowledgment_raises(ticket_data) == ticket_data.ticket_type.k = "null"

\* _generate_acknowledgment (lines 1287-1310), where it returns
generate_acknowledgment(ticket_data) ==
  Rendered("acknowledgment",
           fmt(get(ticket_data.ticket_number, UNKNOWN)),
           Lower(get(ticket_data.ticket_type, <<"t","i","c","k","e","t">>).s),
           fmt(get(ticket_data.priority, UNKNOWN)),
           fmt(get(ticket_data.state, UNKNOWN)),
           fmt(get(ticket_data.category, UNKNOWN)))

\* _generate_status_update, _generate_resolution, _generate_approval_request
\* (lines 1312-1331, 1333-1354, 1380-1410) write the ticket number only
generate_numbered(tpl, ticket_data) ==
  Rendered(tpl, fmt(get(ticket_data.ticket_number, UNKNOWN)), <<>>, <<>>,
           <<>>, <<>>)

\* _generate_escalation (lines 1356-1378)
generate_escalation(ticket_data) ==
  Rendered("escalation", fmt(get(ticket_data.ticket_number, UNKNOWN)), <<>>,
           fmt(get(ticket_data.priority, UNKNOWN)), <<>>, <<>>)

\* _run (lines 1263-1285) on the dict json.loads returns: the five responses
\* are all made before one is picked, so the acknowledgment is made for
\* every response_type
generate(ticket_data, rt) ==
  IF acknowledgment_raises(ticket_data) THEN GenerationError
  ELSE IF rt \in {"status_update", "resolution", "approval_request"}
       THEN generate_numbered(rt, ticket_data)
  ELSE IF rt = "escalation" THEN generate_escalation(ticket_data)
  ELSE generate_acknowledgment(ticket_data)

SN_Generate ==
  /\ tool = GENERATOR /\ pc = "connect"
  /\ response' = generate(ticket_info, response_type)
  /\ result' = Result("RESPONSE", <<>>, "", <<>>)
  /\ pc' = "done"
  /\ UNCHANGED <<processed_emails, output, now, http_status, parsed_info, body_with_signature, emails, history, analysis,
                 server, mbox, calls, tool, sess, bound, log, args, locals>>

\* ------------------------------------------------------------------------
\* The HTTP endpoints (api.py, lines 63-122)
\* ------------------------------------------------------------------------
\* get_unread_emails, get_thread_history and draft_contextual_reply each make
\* one tool, call its _run and return what it returned
ApiTools == {GET_UNREAD, THREAD_HISTORY, CONTEXT_REPLY}

\* The endpoint functions raise no HTTPException and catch nothing: the
\* framework answers 500 for an exception that leaves the function (the
\* ValueError of __init__, the exception of _connect) and 200 for a value
\* returned, whatever the value is.
status_of(r) ==
  IF r.kind \in {"CONFIG_ERROR", "CONNECTION_ERROR"} THEN 500 ELSE 200

\* Lines 75, 95, 122: the endpoint answers
API_Respond ==
  /\ tool \in ApiTools /\ pc = "done" /\ http_status = 0
  /\ http_status' = status_of(result)
  /\ UNCHANGED <<processed_emails, output, now, response, parsed_info, body_with_signature, emails, history,
                 analysis, server, mbox, calls, tool, sess, bound, log, args,
                 locals, result, pc>>

\* ------------------------------------------------------------------------
\* GmailReaderTool: the dictionary made of a message (gmail_reader.py, lines
\* 99-136 and 214-264)
\* ------------------------------------------------------------------------
\* Lines 216-227.  The text is compared in lower case, so the last four
\* indicators match nothing.
servicenow_indicators ==
  {<<"s","e","r","v","i","c","e","n","o","w">>, <<"s","e","r","v","i","c","e",
      "-","n","o","w">>, <<"d","o","-","n","o","t","-","r","e","p","l","y">>,
      <<"i","n","c","i","d","e","n","t">>,
   <<"r","e","q","u","e","s","t">>, <<"t","i","c","k","e","t">>, <<"I","N",
       "C">>, <<"R","E","Q">>, <<"C","H","G">>, <<"R","I","T","M">>}

\* Lines 234-243
high_priority_indicators ==
  {<<"u","r","g","e","n","t">>, <<"h","i","g","h"," ","p","r","i","o","r","i",
      "t","y">>, <<"c","r","i","t","i","c","a","l">>, <<"e","m","e","r","g",
      "e","n","c","y">>, <<"a","s","a","p">>,
   <<"i","m","m","e","d","i","a","t","e">>, <<"p","1">>, <<"s","e","v","e",
       "r","i","t","y"," ","1">>}

\* Lines 245-253
low_priority_indicators ==
  {<<"n","e","w","s","l","e","t","t","e","r">>, <<"n","o","-","r","e","p","l",
      "y">>, <<"n","o","r","e","p","l","y">>, <<"a","u","t","o","m","a","t",
      "e","d">>, <<"m","a","r","k","e","t","i","n","g">>,
   <<"p","r","o","m","o","t","i","o","n">>, <<"u","n","s","u","b","s","c","r",
       "i","b","e">>}

\* Lines 229 and 255: f"{sender} {subject} {body}".lower()
reader_text(sender, subj, content) ==
  Lower(sender \o <<" ">> \o subj \o <<" ">> \o content)

\* _is_servicenow_email (lines 214-231)
is_servicenow_email(sender, subj, content) ==
  ContainsAny(reader_text(sender, subj, content), servicenow_indicators)

\* Mutant: a ServiceNow email gets no priority of its own
determine_priority_Unflagged(sender, subj, content, is_servicenow) ==
  IF ContainsAny(reader_text(sender, subj, content), high_priority_indicators)
  THEN "high"
  ELSE IF ContainsAny(reader_text(sender, subj, content),
                      low_priority_indicators)
  THEN "low"
  ELSE "normal"

\* _determine_priority (lines 232-264)
determine_priority(sender, subj, content, is_servicenow) ==
  IF ContainsAny(reader_text(sender, subj, content), high_priority_indicators)
  THEN "high"
  ELSE IF ContainsAny(reader_text(sender, subj, content),
                      low_priority_indicators)
  THEN "low"
  ELSE IF is_servicenow THEN "high"
  ELSE "normal"

\* _extract_email_data (lines 99-136) for a message with the headers From and
\* Subject and a text/plain body, which _extract_body returns stripped
extract_email_data(m) ==
  LET content == Strip(m.body)
      flagged == is_servicenow_email(m.sender, m.subject, content)
  IN [subject |-> m.subject, sender |-> m.sender, body |-> content,
      is_servicenow |-> flagged,
      priority |-> determine_priority(m.sender, m.subject, content, flagged)]

\* ------------------------------------------------------------------------
\* main.run (main.py, lines 14-139) and EmailSaverTool (email_tools.py, lines
\* 317-358)
\* ------------------------------------------------------------------------
MAIN_RUN == "main.run"

\* The messages the reader may find unread
RawMessages ==
  [sender : {<<"a","@","x">>, <<"n","o","-","r","e","p","l","y","@","x">>,
      <<"i","t","@","s","e","r","v","i","c","e","-","n","o","w",".","c","o",
      "m">>},
   subject : {<<"H","i">>, <<"U","R","G","E","N","T">>, <<"I","n","c","i","d",
       "e","n","t"," ","5">>, <<"N","e","w","s","l","e","t","t","e","r">>},
   body : {<<>>, <<"p","l","e","a","s","e"," ","h","e","l","p">>, <<"a","u",
       "t","o","m","a","t","e","d"," ","t","i","c","k","e","t">>, <<"I","N",
       "C","1"," ","c","l","o","s","e","d","\n">>}]

\* datetime.now().strftime("%Y%m%d_%H%M%S") (email_tools.py, line 328): the
\* time of the clock, which counts half seconds, cut to the second
timestamp(t) == t \div 2

\* EmailSaverTool._run (email_tools.py, lines 323-339): the analysis file is
\* named after the second and opened with 'w', which replaces a file of that
\* name
save(files, t, i) ==
  { f \in files : f.name # timestamp(t) }
    \cup {[name |-> timestamp(t), email |-> i]}

\* Lines 40-54 of main.py: the reader returns an error, a message that
\* nothing is unread or an empty list, and run returns; or it returns emails
RUN_Read ==
  /\ tool = MAIN_RUN /\ pc = "connect"
  /\ \E o \in {"EMAILS", "NOTHING"} :
       IF o = "EMAILS"
       THEN pc' = "loop" /\ UNCHANGED result
       ELSE pc' = "done" /\ result' = Result(o, <<>>, "", <<>>)
  /\ UNCHANGED <<batch, server, mbox, calls, tool, sess, bound, log, args,
                 locals>>

\* Lines 61-106 of main.py, once round the loop with the next email of the
\* list: analyse (line 68), save (line 94), append to processed_emails (lines
\* 101-106).  The analysis of a dictionary of the reader has no error.
RUN_Email ==
  /\ tool = MAIN_RUN /\ pc = "loop"
  /\ Len(processed_emails) < MaxRun
  /\ \E m \in RawMessages :
       /\ email_data' = extract_email_data(m)
       /\ analysis' = analyse(extract_email_data(m))
  /\ output' = save(output, now, Len(processed_emails) + 1)
  /\ processed_emails' = Append(processed_emails, timestamp(now))
  /\ UNCHANGED <<now, http_status, response, parsed_info, body_with_signature,
                 emails, history, server, mbox, calls, tool, sess, bound, log,
                 locals, result, pc, subject, thread_info, organize_args,
                 limit, email_id, max_depth, body, email_content, ticket_info,
                 response_type>>

\* The list is at its end (lines 108-131)
RUN_End ==
  /\ tool = MAIN_RUN /\ pc = "loop"
  /\ Len(processed_emails) >= 1
  /\ result' = Result("PROCESSED", <<>>, "", <<>>)
  /\ pc' = "done"
  /\ UNCHANGED <<batch, server, mbox, calls, tool, sess, bound, log, args,
                 locals>>

\* Time passes while run is in its loop
Tick ==
  /\ tool = MAIN_RUN /\ pc = "loop"
  /\ now < MaxClock
  /\ now' = now + 1
  /\ UNCHANGED <<output, processed_emails, http_status, response, parsed_info,
                 body_with_signature, emails, history, analysis, server, mbox,
                 calls, tool, sess, bound, log, args, locals, result, pc>>

\* ------------------------------------------------------------------------
\* Calls
\* ------------------------------------------------------------------------
\* The INBOX of the specification SpecTools: empty, or one unread message
ToolInboxes ==
  {<<>>, <<Mail("A", "", <<>>, Aware(1), {"a@x"}, {"me@x"}, {})>>}

Tools == {SAVE_DRAFT, GET_UNREAD, THREAD_HISTORY, CONTEXT_REPLY, ORGANIZE,
          EMPTY_TRASH, GMAIL_READER}

\* A thread context of one message without history, as an agent passes it
Reply(id, refs, subj, msgs) ==
  [present |-> TRUE, message_id |-> id, references |-> refs,
   thread_subject |-> subj, thread_messages |-> msgs]

Msg(d, id, subj) == [date |-> d, message_id |-> id, subject |-> subj]

NoOrganize == [category |-> "", priority |-> "", should_star |-> FALSE,
               labels |-> <<>>]

OrganizeArgs ==
  [category : {URGENT_CATEGORY, "Newsletter"}, priority : {HIGH, "Low"},
   should_star : BOOLEAN, labels : {<<>>, <<"Work">>}]

\* The arguments of the calls of the specification Spec
Subjects == {S_EMPTY, S_STATUS}
ThreadInfos ==
  { NoThread,
    Reply("a", <<>>, S_STATUS, <<>>),
    Reply("b", <<"a">>, <<>>, <<Msg(Aware(1), "a", S_STATUS), Msg(D_BAD, "b", S_STATUS)>>) }

\* The arguments a call of tool t can have
ArgsOf(t) ==
  IF t = SAVE_DRAFT \/ t = CONTEXT_REPLY
  THEN [subject : Subjects, thread_info : ThreadInfos,
        organize_args : {NoOrganize}, limit : {1}, email_id : {1},
        max_depth : {1}, body : {<<>>},
   email_content : {NoContent},
   ticket_info : {NoTicket},
   response_type : {"acknowledgment"},
   email_data : {NoData}]
  ELSE IF t = ORGANIZE
  THEN [subject : {S_EMPTY}, thread_info : {NoThread},
        organize_args : OrganizeArgs, limit : {1}, email_id : {1},
        max_depth : {1}, body : {<<>>},
   email_content : {NoContent},
   ticket_info : {NoTicket},
   response_type : {"acknowledgment"},
   email_data : {NoData}]
  ELSE [subject : {S_EMPTY}, thread_info : {NoThread},
        organize_args : {NoOrganize}, limit : {1}, email_id : {1},
        max_depth : {1}, body : {<<>>},
   email_content : {NoContent},
   ticket_info : {NoTicket},
   response_type : {"acknowledgment"},
   email_data : {NoData}]

\* The servers of the specification Spec: no drafts folder at all, Gmail
\* (both spellings of [Gmail]/Drafts), a server that takes only the bare
\* spelling, servers with a plain Drafts folder
Servers ==
  [accepts : { {}, {Q_GMAIL_DRAFTS, GMAIL_DRAFTS}, {GMAIL_DRAFTS}, {DRAFTS},
               {DRAFTS, DRAFTS_UPPER}, {GMAIL_DRAFTS, DRAFTS},
               {Q_GMAIL_DRAFTS, GMAIL_DRAFTS, Q_GOOGLE_DRAFTS} },
   indexes : BOOLEAN, faulty : BOOLEAN, mailboxes : ListResponses,
   creds : {BOTH}, lenient : {TRUE}, inbox : {<<>>}]

\* What the mailbox holds before the first call
Mailboxes0 ==
  { <<>>,
    <<[folder |-> DRAFTS, subject |-> S_RE_STATUS, in_reply_to |-> "",
       references |-> <<>>, call |-> 0, indexed |-> TRUE]>> }

InitWith(servers, boxes, tools, argsOf(_)) ==
  /\ \E sv \in servers :
       /\ accepts = sv.accepts
       /\ indexes = sv.indexes
       /\ faulty = sv.faulty
       /\ mailboxes = sv.mailboxes
       /\ creds = sv.creds
       /\ lenient = sv.lenient
       /\ inbox = sv.inbox
  /\ mbox \in boxes
  /\ calls = 1
  /\ tool \in tools
  /\ \E a \in argsOf(tool) :
       /\ subject = a.subject
       /\ thread_info = a.thread_info
       /\ organize_args = a.organize_args
       /\ limit = a.limit
       /\ email_id = a.email_id
       /\ max_depth = a.max_depth
       /\ body = a.body
       /\ email_content = a.email_content
       /\ ticket_info = a.ticket_info
       /\ response_type = a.response_type
       /\ email_data = a.email_data
  /\ pc = "connect"
  /\ sess = "none"
  /\ bound = FALSE
  /\ log = <<>>
  /\ result = NoResult
  /\ drafts_folders = <<>>
  /\ cand = 1
  /\ drafts_folder = ""
  /\ message = NoMessage
  /\ emails = <<>>
  /\ history = NoHistory
  /\ analysis = NoAnalysis
  /\ processed_emails = <<>>
  /\ output = {}
  /\ now = 0
  /\ http_status = 0
  /\ response = NoResponse
  /\ parsed_info = NoTicket
  /\ body_with_signature = <<>>

\* The caller makes its next call, with a new tool object and a new session
NextCallOf(tools) ==
  /\ pc = "done"
  /\ calls < MaxCalls
  /\ calls' = calls + 1
  /\ tool' \in tools
  /\ \E a \in ArgsOf(tool') :
       /\ subject' = a.subject
       /\ thread_info' = a.thread_info
       /\ organize_args' = a.organize_args
       /\ limit' = a.limit
       /\ email_id' = a.email_id
       /\ max_depth' = a.max_depth
       /\ body' = a.body
       /\ email_content' = a.email_content
       /\ ticket_info' = a.ticket_info
       /\ response_type' = a.response_type
       /\ email_data' = a.email_data
  /\ pc' = "connect"
  /\ sess' = "none"
  /\ bound' = FALSE
  /\ log' = <<>>
  /\ result' = NoResult
  /\ drafts_folders' = <<>>
  /\ cand' = 1
  /\ drafts_folder' = ""
  /\ message' = NoMessage
  /\ emails' = <<>>
  /\ history' = NoHistory
  /\ analysis' = NoAnalysis
  /\ processed_emails' = <<>>
  /\ output' = {}
  /\ now' = 0
  /\ http_status' = 0
  /\ response' = NoResponse
  /\ parsed_info' = NoTicket
  /\ body_with_signature' = <<>>
  /\ UNCHANGED <<server, mbox>>

\* ---- Spec: calls of save_draft, one after the other, on one mailbox
Init == InitWith(Servers, Mailboxes0, {SAVE_DRAFT}, ArgsOf)

NextDraft == NextCallOf({SAVE_DRAFT})

Next ==
  \/ SD_Connect \/ SD_List \/ SD_Select \/ SD_Compose \/ SD_Append
  \/ SD_Verify \/ SD_Fallback \/ SD_Finally
  \/ NextDraft

Spec == Init /\ [][Next]_vars

\* ---- SpecTools: calls of every tool that logs in, on a Gmail server
ToolServers ==
  [accepts : {{Q_GMAIL_DRAFTS, GMAIL_DRAFTS}}, indexes : BOOLEAN,
   faulty : BOOLEAN, mailboxes : {<<L_INBOX, L_GMAIL_DRAFTS>>},
   creds : Credentials, lenient : BOOLEAN, inbox : ToolInboxes]

InitTools == InitWith(ToolServers, {<<>>}, Tools, ArgsOf)

NextTool == NextCallOf(Tools)

NextTools ==
  \/ SD_Connect \/ SD_List \/ SD_Select \/ SD_Compose \/ SD_Append
  \/ SD_Verify \/ SD_Fallback \/ SD_Finally
  \/ GU_Connect \/ GU_Select \/ GU_Search \/ GU_Fetch \/ GU_Finally
  \/ TH_Connect \/ TH_Select \/ TH_Fetch \/ TH_Finally
  \/ OR_Connect \/ OR_Select \/ OR_Store \/ OR_Finally
  \/ CAR_Connect \/ CAR_Fetch \/ CAR_Finally
  \/ ET_Connect \/ ET_Empty \/ ET_Finally
  \/ GR_Connect \/ GR_Select \/ GR_Search \/ GR_Fetch
  \/ API_Respond
  \/ NextTool

SpecTools == InitTools /\ [][NextTools]_vars

\* ---- SpecCompose: one call of save_draft on a Gmail server that answers
\* every command, over the subjects and thread contexts a caller can pass
MsgIds == {"", "a", "b"}

Dates == {D_NONE, D_BAD, Naive(1)} \cup {Aware(n) : n \in 1..MaxDate}

\* The sequences over S of at most n elements
SeqsUpTo(S, n) == UNION {[1..k -> S] : k \in 0..n}

\* Reference chains: at most MaxRefs message ids, none of them twice
RefChains ==
  { r \in SeqsUpTo({"a", "b"}, MaxRefs) :
      \A i, j \in 1..Len(r) : i # j => r[i] # r[j] }

\* Thread contexts that differ in the ids and the dates of their messages
ThreadContexts ==
  { Reply(id, refs, S_STATUS, msgs) :
      id \in {"", "c"}, refs \in RefChains,
      msgs \in SeqsUpTo([date : Dates, message_id : MsgIds,
                         subject : {S_STATUS}], MaxThread) }

\* Thread contexts that differ in the subjects they carry
SubjectContexts ==
  { Reply("a", <<>>, ts, msgs) :
      ts \in {S_EMPTY, S_BLANK, S_STATUS, S_UPPER_RE},
      msgs \in SeqsUpTo([date : {Aware(1)}, message_id : {"a"},
                         subject : {S_EMPTY, S_BLANK, S_HELLO}], MaxThread) }

ComposeSubjects == {S_EMPTY, S_BLANK, S_STATUS, S_RE_STATUS, S_UPPER_RE}

\* Draft bodies: at most MaxSegments pieces of text, among them the
\* placeholder in its two spellings, in lower case, and another placeholder
BodySegments ==
  {<<"H","i">>, <<"\n">>,
   <<"[","Y","o","u","r"," ","n","a","m","e","]">>,
   <<"[","Y","o","u","r"," ","N","a","m","e","]">>,
   <<"[","y","o","u","r"," ","n","a","m","e","]">>,
   <<"[","Y","o","u","r"," ","T","i","t","l","e","]">>}

RECURSIVE Flatten(_)
Flatten(q) == IF q = <<>> THEN <<>> ELSE Head(q) \o Flatten(Tail(q))

Bodies == { Flatten(q) : q \in SeqsUpTo(BodySegments, MaxSegments) }

ComposeArgs(t) ==
  [subject : {S_STATUS}, thread_info : ThreadContexts,
   organize_args : {NoOrganize}, limit : {1}, email_id : {1},
   max_depth : {1}, body : {<<>>},
   email_content : {NoContent},
   ticket_info : {NoTicket},
   response_type : {"acknowledgment"},
   email_data : {NoData}]
  \cup [subject : ComposeSubjects,
        thread_info : SubjectContexts \cup {NoThread},
        organize_args : {NoOrganize}, limit : {1}, email_id : {1},
        max_depth : {1}, body : {<<>>},
   email_content : {NoContent},
   ticket_info : {NoTicket},
   response_type : {"acknowledgment"},
   email_data : {NoData}]
  \cup [subject : {S_STATUS}, thread_info : {NoThread},
        organize_args : {NoOrganize}, limit : {1}, email_id : {1},
        max_depth : {1}, body : Bodies, email_content : {NoContent},
   ticket_info : {NoTicket},
   response_type : {"acknowledgment"},
   email_data : {NoData}]

ComposeServers ==
  [accepts : {{Q_GMAIL_DRAFTS, GMAIL_DRAFTS}}, indexes : {TRUE},
   faulty : {FALSE}, mailboxes : {<<L_INBOX, L_GMAIL_DRAFTS>>},
   creds : {BOTH}, lenient : {TRUE}, inbox : {<<>>}]

InitCompose == InitWith(ComposeServers, {<<>>}, {SAVE_DRAFT}, ComposeArgs)

NextCompose ==
  \/ SD_Connect \/ SD_List \/ SD_Select \/ SD_Compose \/ SD_Append
  \/ SD_Verify \/ SD_Finally

SpecCompose == InitCompose /\ [][NextCompose]_vars

\* ---- SpecUnread: one call of get_unread_emails or of GmailReaderTool on an
\* INBOX of unread and read messages
\* An unread message without a Message-ID, one with, one that is gone when it
\* is fetched, one with an unparseable date, and a message already read
UnreadMails ==
  LET ME == {"me@x"}
  IN { Mail("", "", <<>>, Aware(1), {"a@x"}, ME, {}),
       Mail("A", "", <<>>, Aware(1), {"a@x"}, ME, {}),
       [Mail("", "", <<>>, Aware(1), {"b@x"}, ME, {}) EXCEPT !.gone = TRUE],
       Mail("", "", <<>>, D_BAD, {"a@x"}, ME, {}),
       [Mail("B", "A", <<>>, Aware(2), {"b@x"}, ME, {}) EXCEPT !.unseen = FALSE] }

UnreadServers ==
  [accepts : {{Q_GMAIL_DRAFTS, GMAIL_DRAFTS}}, indexes : {TRUE},
   faulty : BOOLEAN, mailboxes : {<<L_INBOX, L_GMAIL_DRAFTS>>},
   creds : {BOTH}, lenient : BOOLEAN, inbox : SeqsUpTo(UnreadMails, MaxInbox)]

UnreadArgs(t) ==
  [subject : {S_EMPTY}, thread_info : {NoThread}, organize_args : {NoOrganize},
   limit : 1..MaxLimit, email_id : {1}, max_depth : {1}, body : {<<>>},
   email_content : {NoContent},
   ticket_info : {NoTicket},
   response_type : {"acknowledgment"},
   email_data : {NoData}]

InitUnread == InitWith(UnreadServers, {<<>>}, {GET_UNREAD, GMAIL_READER}, UnreadArgs)

NextUnread ==
  \/ GU_Connect \/ GU_Select \/ GU_Search \/ GU_Fetch \/ GU_Finally
  \/ GR_Connect \/ GR_Select \/ GR_Search \/ GR_Fetch

SpecUnread == InitUnread /\ [][NextUnread]_vars

\* ---- SpecThread: one call of get_thread_history on an INBOX of threads
\* The thread A, B, C: B answers A, C refers to A and B; C with a Cc
T_A == Mail("A", "", <<>>, Aware(1), {"a@x"}, {"b@x"}, {})
T_B == Mail("B", "A", <<>>, Aware(2), {"b@x"}, {"a@x"}, {})
T_C == Mail("C", "", <<"A", "B">>, Aware(3), {"a@x"}, {"b@x"}, {})
T_C_CC == [T_C EXCEPT !.cc = {"c@x"}]
\* With them: an answer to B that names B alone; answers to A without a Date
\* header and with an unparseable one; a message of no thread
ThreadMails ==
  {T_A, T_B, T_C, T_C_CC,
   Mail("D", "B", <<>>, Aware(4), {"b@x"}, {"a@x"}, {}),
   Mail("N", "A", <<>>, D_NONE, {"b@x"}, {"a@x"}, {}),
   Mail("X", "A", <<>>, D_BAD, {"b@x"}, {"a@x"}, {}),
   Mail("", "", <<>>, Aware(2), {"d@x"}, {"a@x"}, {})}

\* INBOXes of at most MaxInbox messages, none of them twice
ThreadInboxes ==
  { b \in SeqsUpTo(ThreadMails, MaxInbox) :
      \A i, j \in 1..Len(b) : i # j => b[i].message_id # b[j].message_id }

ThreadServers ==
  [accepts : {{Q_GMAIL_DRAFTS, GMAIL_DRAFTS}}, indexes : {TRUE},
   faulty : BOOLEAN, mailboxes : {<<L_INBOX, L_GMAIL_DRAFTS>>},
   creds : {BOTH}, lenient : BOOLEAN, inbox : ThreadInboxes]

ThreadArgs(t) ==
  [subject : {S_EMPTY}, thread_info : {NoThread}, organize_args : {NoOrganize},
   limit : {1}, email_id : 1..MaxInbox, max_depth : 1..MaxInbox,
   body : {<<>>},
   email_content : {NoContent},
   ticket_info : {NoTicket},
   response_type : {"acknowledgment"},
   email_data : {NoData}]

InitThread == InitWith(ThreadServers, {<<>>}, {THREAD_HISTORY}, ThreadArgs)

NextThread == TH_Connect \/ TH_Select \/ TH_Fetch \/ TH_Finally

SpecThread == InitThread /\ [][NextThread]_vars

\* ---- SpecClassify: one call of EmailAnalysisTool on a message
B_PLEASE_RESPOND == <<"P","l","e","a","s","e"," ","r","e","s","p","o","n","d">>

\* Subjects and bodies with the markers of the marker families, alone and
\* together
ClassifyData ==
  [subject : {S_EMPTY, S_STATUS,
              <<"N","o","t","i","f","i","c","a","t","i","o","n">>,
              <<"F","Y","I">>,
              <<"N","e","w","s","l","e","t","t","e","r">>,
              <<"U","R","G","E","N","T">>,
              <<"M","e","e","t","i","n","g","?">>,
              <<"A","p","p","r","o","v","e","?">>},
   sender : {<<"n","o","-","r","e","p","l","y","@","x">>,
             <<"o","n","l","y","@","x">>, <<"a","@","x">>,
             <<"n","o","w","@","x">>},
   body : {<<>>, B_PLEASE_RESPOND,
           <<"U","n","s","u","b","s","c","r","i","b","e">>,
           <<"H","e","l","l","o">>,
           <<"T","h","a","n","k","s">>,
           <<"T","h","a","n","k"," ","y","o","u",","," ","a","p","p","r","o","v","a","l"," ","t","o","d","a","y">>,
           <<"I","n","c","i","d","e","n","t">>},
   is_servicenow : BOOLEAN, priority : {"normal", "high"}]

ClassifyArgs(t) ==
  [subject : {S_EMPTY}, thread_info : {NoThread}, organize_args : {NoOrganize},
   limit : {1}, email_id : {1}, max_depth : {1}, body : {<<>>},
   email_content : {NoContent},
   ticket_info : {NoTicket},
   response_type : {"acknowledgment"},
   email_data : ClassifyData]

InitClassify == InitWith(ComposeServers, {<<>>}, {ANALYSIS}, ClassifyArgs)

NextClassify == EA_Run

SpecClassify == InitClassify /\ [][NextClassify]_vars

\* ------------------------------------------------------------------------
\* The ServiceNow tools, called with the texts of notification emails and with
\* ticket records
\* ------------------------------------------------------------------------
EmailContents ==
  {<<>>,
   <<"I","N","C","0","0","1","2","3","4","5"," ","S","t","a","t","e",":"," ",
       "O","p","e","n">>,
   <<"R","E","Q","0","0","0","0","0","0","1"," ","P","r","i","o","r","i","t",
       "y",":"," ","1"," ","-"," ","H","i","g","h">>,
   <<"i","n","c","0","0","1","2","3","4","5"," ","S","t","a","t","e",":"," ",
       "C","l","o","s","e","d">>,
   <<"Y","o","u","r"," ","r","e","q","u","e","s","t"," ","w","a","s"," ","c",
       "l","o","s","e","d">>,
   <<"I","n","c","i","d","e","n","t"," ","N","u","m","b","e","r",":"," ","P",
       "R","B","0","0","0","0","0","0","1">>,
   <<"C","H","G","0","0","0","0","0","0","2"," ","C","a","t","e","g","o","r",
       "y",":"," ","N","e","t","w","o","r","k">>,
   <<"R","I","T","M","0","0","0","0","0","0","3","\n","S","t","a","t","u","s",
       ":"," ","C","l","o","s","e","d","\n","P","r","i","o","r","i","t","y",
       ":"," ","2">>}

\* A dict with each key missing, null or a text, and the dicts the parser
\* writes for the texts above
TicketRecords ==
  [ticket_number : {Absent, Null, Str(<<"I","N","C","0","0","1","2","3","4",
      "5">>)},
   ticket_type : {Absent, Null, Str(<<"I","n","c","i","d","e","n","t">>)},
   state : {Absent, Null, Str(<<"O","p","e","n">>)},
   priority : {Absent, Null, Str(<<"1">>)},
   category : {Absent, Null, Str(<<"N","e","t","w","o","r","k">>)}]
  \cup { parse(c) : c \in EmailContents }

ResponseTypes == {"acknowledgment", "status_update", "resolution",
                  "escalation", "approval_request", "thanks"}

TicketArgs(t) ==
  [subject : {S_EMPTY}, thread_info : {NoThread},
      organize_args : {NoOrganize},
   limit : {1}, email_id : {1}, max_depth : {1}, body : {<<>>},
   email_data : {NoData},
   email_content : IF t = PARSER THEN EmailContents ELSE {NoContent},
   ticket_info : IF t = GENERATOR THEN TicketRecords ELSE {NoTicket},
   response_type : IF t = GENERATOR THEN ResponseTypes
                   ELSE {"acknowledgment"}]

InitTicket == InitWith(ComposeServers, {<<>>}, {PARSER, GENERATOR},
    TicketArgs)

NextTicket == SN_Parse \/ SN_Generate

SpecTicket == InitTicket /\ [][NextTicket]_vars

\* ------------------------------------------------------------------------
\* main.run over the messages the reader may find
\* ------------------------------------------------------------------------
RunArgs(t) ==
  [subject : {S_EMPTY}, thread_info : {NoThread},
      organize_args : {NoOrganize},
   limit : {1}, email_id : {1}, max_depth : {1}, body : {<<>>},
   email_data : {NoData}, email_content : {NoContent},
   ticket_info : {NoTicket}, response_type : {"acknowledgment"}]

InitRun == InitWith(ComposeServers, {<<>>}, {MAIN_RUN}, RunArgs)

NextRun == RUN_Read \/ RUN_Email \/ RUN_End \/ Tick

SpecRun == InitRun /\ [][NextRun]_vars

\* ------------------------------------------------------------------------
\* Properties
\* ------------------------------------------------------------------------
Happened(e, r) == \E i \in 1..Len(log) : log[i].ev = e /\ log[i].res = r

LoggedIn == Happened("login", "OK")
LoggedOut == \E i \in 1..Len(log) : log[i].ev = "logout"

\* The appends of this call to a drafts folder, and to All Mail
DraftAppends == { i \in 1..Len(log) : log[i].ev = "append" /\ log[i].arg # ALL_MAIL }
FallbackAppends == { i \in 1..Len(log) : log[i].ev = "append" /\ log[i].arg = ALL_MAIL }

\* The messages the call in progress has added to the mailbox
Written == { i \in 1..Len(mbox) : mbox[i].call = calls }

Returned == pc = "done"

\* C1: every tool call that has logged in to the mail server has issued a
\* logout on that session by the time it returns, on every path.
C1_LogoutOnEveryPath == (Returned /\ LoggedIn) => LoggedOut

\* C1, by tool: save_draft and empty-trash log out on every path.
C1_LogoutOnlyTools ==
  (Returned /\ LoggedIn /\ tool \in {SAVE_DRAFT, EMPTY_TRASH}) => LoggedOut

\* C2: when a drafts folder is selected, the append is accepted and the
\* search by subject finds the draft (as it does on a server that indexes at
\* once), save_draft returns VERIFIED and issues no fallback append; a call
\* composes before it appends and appends before it searches.
C2_VerifiedNoFallback ==
  tool = SAVE_DRAFT =>
    /\ (Returned /\ indexes /\ \E i \in DraftAppends : log[i].res = "OK")
         => (result.kind = "VERIFIED" /\ FallbackAppends = {})
    /\ (Returned /\ Happened("search", "OK"))
         => (result.kind = "VERIFIED" /\ FallbackAppends = {})
    /\ \A i \in 1..Len(log) :
         /\ log[i].ev = "append" =>
              \E j \in 1..(i - 1) : log[j] = Ev("compose", "", "OK")
         /\ log[i].ev = "search" =>
              \E j \in 1..(i - 1) : log[j].ev = "append" /\ log[j].res = "OK"

C2_Witness ==
  /\ tool = SAVE_DRAFT /\ Returned /\ indexes
  /\ result.kind = "VERIFIED"
  /\ \E i \in DraftAppends : log[i].res = "OK"
  /\ Happened("search", "OK")

\* C3: on a server that accepts every append and never shows the draft to a
\* search, save_draft returns the unverified warning.
C3_UnverifiedWarning ==
  (/\ tool = SAVE_DRAFT /\ Returned
   /\ \E i \in DraftAppends : log[i].res = "OK"
   /\ \A i \in 1..Len(log) : log[i].ev = "append" => log[i].res = "OK"
   /\ ~indexes /\ ~Happened("search", "OK"))
  => result.kind = "WARNING"

\* The first drafts-folder candidate, in the order of the source, that the
\* server lets a client select (0 if there is none)
FirstAccepted ==
  IF Q_GMAIL_DRAFTS \in accepts THEN 1
  ELSE IF GMAIL_DRAFTS \in accepts THEN 2
  ELSE IF DRAFTS \in accepts THEN 3 ELSE 0

CandidateName(i) ==
  CASE i = 1 -> Q_GMAIL_DRAFTS [] i = 2 -> GMAIL_DRAFTS [] i = 3 -> DRAFTS
    [] OTHER -> ""

\* The selects of drafts-folder candidates made before the message is composed
CandidateSelects ==
  { i \in 1..Len(log) :
      /\ log[i].ev = "select"
      /\ \A j \in 1..(i - 1) : log[j].ev # "compose" }

\* The text of a LIST line names the candidate
Mentions(line, name) ==
  \/ line = L_GMAIL_DRAFTS /\ name \in {Q_GMAIL_DRAFTS, GMAIL_DRAFTS, DRAFTS}
  \/ line \in {L_PLAIN_DRAFTS, L_ENTWUERFE} /\ name = DRAFTS

\* The candidates are tried in the fixed order, up to the first one accepted,
\* and the draft is appended to that one
TriedInOrder ==
  /\ \A i \in CandidateSelects :
       /\ log[i].arg = CandidateName(Cardinality({j \in CandidateSelects : j <= i}))
       /\ log[i].res = "OK" => log[i].arg = CandidateName(FirstAccepted)
  /\ \A i \in DraftAppends : log[i].arg = CandidateName(FirstAccepted)

\* C4 as stated: candidates in fixed order, append to the first accepted; if
\* none is accepted: folder-not-found, the candidates attempted are reported,
\* no append.
C4_ReportsCandidates ==
  tool = SAVE_DRAFT =>
    /\ TriedInOrder
    /\ result.kind = "ERR_FOLDER" =>
         /\ FirstAccepted = 0
         /\ \A c \in 1..3 : \E k \in 1..Len(result.folders) :
              Mentions(result.folders[k], CandidateName(c))
         /\ DraftAppends \cup FallbackAppends = {}

Reported(line) == \E n \in 1..Len(result.folders) : result.folders[n] = line

\* C4 as amended: candidates in fixed order, append to the first accepted; if
\* the server refuses all three, the call returns the folder-not-found error
\* with the drafts folders the server's LIST response named (none if LIST
\* failed), and issues no append.
C4_ReportsListedFolders ==
  tool = SAVE_DRAFT =>
    /\ TriedInOrder
    /\ result.kind = "ERR_FOLDER" =>
         /\ FirstAccepted = 0
         /\ Cardinality(CandidateSelects) = 3
         /\ \A i \in CandidateSelects : log[i].res = "NO"
         /\ \/ /\ Happened("list", "OK")
               /\ (\A k \in 1..Len(mailboxes) :
                     MentionsDraft(mailboxes[k]) <=> Reported(mailboxes[k]))
               /\ (\A n \in 1..Len(result.folders) :
                     \E k \in 1..Len(mailboxes) : result.folders[n] = mailboxes[k])
            \/ /\ Happened("list", "NO")
               /\ result.folders = <<>>
         /\ DraftAppends \cup FallbackAppends = {}
    /\ (Returned /\ FirstAccepted = 0 /\ Cardinality(CandidateSelects) = 3
        /\ \A i \in CandidateSelects : log[i].res = "NO")
         => result.kind = "ERR_FOLDER"

C4_Witness ==
  /\ tool = SAVE_DRAFT /\ Returned
  /\ result.kind = "ERR_FOLDER"
  /\ result.folders = <<L_ENTWUERFE>>
  /\ Cardinality(CandidateSelects) = 3

\* C5: if the server rejects the append to the selected drafts folder, the
\* call ends in a write error; it searches nothing, appends nothing to All
\* Mail, and the mailbox holds no message of this call.
C5_RejectedAppend ==
  (tool = SAVE_DRAFT /\ \E i \in DraftAppends : log[i].res \in {"NO", "RAISE"})
  => /\ result.kind = (IF \E i \in DraftAppends : log[i].res = "NO"
                       THEN "ERR_APPEND" ELSE "ERR_EXC")
     /\ \A i \in 1..Len(log) : log[i].ev # "search"
     /\ FallbackAppends = {}
     /\ Written = {}

C5_Witness ==
  /\ tool = SAVE_DRAFT /\ Returned
  /\ \E i \in DraftAppends : log[i].res = "NO"
  /\ result.kind = "ERR_APPEND"
  /\ LoggedOut

\* C6: a save_draft call that does not end in an error has added exactly one
\* message to the mailbox, never two copies.
C6_OneDraftPerCall ==
  (tool = SAVE_DRAFT /\ Returned
   /\ result.kind \in {"VERIFIED", "ALL_MAIL", "WARNING"})
  => Cardinality(Written) = 1

\* C6, the part the code keeps: every call that does not end in an error adds
\* a message of its own, also when the mailbox holds the same draft already.
C6_NoDedup ==
  (tool = SAVE_DRAFT /\ Returned
   /\ result.kind \in {"VERIFIED", "ALL_MAIL", "WARNING"})
  => Written # {}

\* A date as the specification orders it: a missing or unparseable date is
\* the minimum
Rank(d) == IF d.k \in {"none", "bad"} THEN 0 ELSE d.t

\* The message ids of the most recent messages of a thread context
LatestIds(ti) ==
  IF ti.thread_messages = <<>> THEN {ti.message_id}
  ELSE { ti.thread_messages[i].message_id :
           i \in { k \in 1..Len(ti.thread_messages) :
                     \A j \in 1..Len(ti.thread_messages) :
                       Rank(ti.thread_messages[j].date)
                         <= Rank(ti.thread_messages[k].date) } }

\* C7: a reply is written for every thread context, also one whose messages
\* have missing or unparseable dates, and its In-Reply-To is the message id
\* of the most recent message of the context.
C7_InReplyToLatest ==
  (tool = SAVE_DRAFT /\ Returned /\ thread_info.present)
  => /\ Written # {}
     /\ \A i \in Written : mbox[i].in_reply_to \in LatestIds(thread_info)

\* C7, the part the code keeps: a draft that was written replies to the most
\* recent message.
C7_WrittenRepliesToLatest ==
  (tool = SAVE_DRAFT /\ thread_info.present)
  => \A i \in Written : mbox[i].in_reply_to \in LatestIds(thread_info)

Last(q) == q[Len(q)]
Occurs(x, q) == \E i \in 1..Len(q) : q[i] = x

\* C8 as stated: References of a reply draft ends with the value of
\* In-Reply-To.
C8_EndsWithInReplyTo ==
  (tool = SAVE_DRAFT /\ thread_info.present)
  => \A i \in Written :
       mbox[i].in_reply_to # "" =>
         /\ mbox[i].references # <<>>
         /\ Last(mbox[i].references) = mbox[i].in_reply_to

\* C8 as amended: References of a reply draft is the thread's reference chain,
\* with the latest message's id appended when the chain does not hold it
\* anywhere; so References holds the value of In-Reply-To, and ends with it
\* unless the chain held it before its end.
C8_HoldsInReplyTo ==
  (tool = SAVE_DRAFT /\ thread_info.present)
  => \A i \in Written :
       LET id == mbox[i].in_reply_to
           refs == mbox[i].references
           chain == thread_info.references
       IN /\ id # "" => Occurs(id, refs)
          /\ (id = "" \/ Occurs(id, chain)) => refs = chain
          /\ (id # "" /\ ~Occurs(id, chain)) => refs = Append(chain, id)

C8_Witness ==
  /\ tool = SAVE_DRAFT /\ Returned /\ thread_info.present
  /\ \E i \in Written :
       /\ mbox[i].in_reply_to = "a"
       /\ mbox[i].references = <<"a", "b">>
  /\ \E i \in Written :
       thread_info.references = <<"a", "b">> /\ mbox[i].subject = S_RE_STATUS

HasRe(s) == StartsWith(Lower(s), <<"r", "e", ":">>)
IsBlank(s) == \A i \in 1..Len(s) : s[i] \in {" ", "\t", "\n"}

\* C9: a draft written as a reply has a subject that starts with "re:",
\* letter case ignored; a subject that already starts so is left as it is,
\* any other gets "Re: " in front.
C9_ReplyPrefixOnce ==
  (tool = SAVE_DRAFT /\ thread_info.present)
  => \A i \in Written :
       /\ HasRe(mbox[i].subject)
       /\ (~IsBlank(subject) /\ HasRe(subject)) => mbox[i].subject = subject
       /\ (~IsBlank(subject) /\ ~HasRe(subject))
            => mbox[i].subject = <<"R", "e", ":", " ">> \o subject
       /\ (IsBlank(subject) /\ HasRe(Strip(thread_info.thread_subject)))
            => mbox[i].subject = Strip(thread_info.thread_subject)

C9_Witness ==
  /\ tool = SAVE_DRAFT /\ Returned /\ thread_info.present
  /\ subject = S_UPPER_RE
  /\ \E i \in Written : mbox[i].subject = S_UPPER_RE

\* The subject with the reply prefix of C9
Prefixed(s) ==
  IF thread_info.present /\ ~HasRe(s) THEN <<"R", "e", ":", " ">> \o s ELSE s

Unseen == { i \in 1..Len(inbox) : inbox[i].unseen }
Batch == { i \in Unseen : Cardinality({ j \in Unseen : j > i }) < limit }

\* Every unread message can be fetched and no command fails
AllFetch == ~faulty /\ \A i \in Unseen : ~inbox[i].gone

\* C11: with k unread messages that all fetch, get_unread_emails returns
\* min(k, limit) tuples, the most recent unread messages, most recent first;
\* also when the messages carry a Message-ID and the search for their thread
\* finds messages.
C11_ReturnsMostRecent ==
  (tool = GET_UNREAD /\ Returned /\ AllFetch)
  => /\ Len(emails) = (IF Cardinality(Unseen) < limit
                       THEN Cardinality(Unseen) ELSE limit)
     /\ Range(emails) = Batch
     /\ \A i, j \in 1..Len(emails) : i < j => emails[i] > emails[j]

\* C11, the part the code keeps: the same when no search for a thread finds
\* a message (the server refuses the search, or no unread message carries an
\* id to search for).
C11_WithoutThreads ==
  (/\ tool = GET_UNREAD /\ Returned /\ AllFetch
   /\ (~lenient \/ \A i \in Unseen : thread_ids(inbox[i]) = {}))
  => /\ Range(emails) = Batch
     /\ Len(emails) = Cardinality(Batch)
     /\ \A i, j \in 1..Len(emails) : i < j => emails[i] > emails[j]

\* A message whose handling can fail nowhere: it can be fetched and has no id
\* to search a thread for
Healthy(i) == ~inbox[i].gone /\ thread_ids(inbox[i]) = {}

\* C12: when no command fails, a message of the batch that cannot be handled
\* does not abort the batch: every message of the batch that can be handled
\* is returned.
C12_BatchSurvives ==
  (tool \in {GET_UNREAD, GMAIL_READER} /\ Returned /\ ~faulty
   /\ result.kind \notin {"CONFIG_ERROR"})
  => \A i \in Batch : Healthy(i) => i \in Range(emails)

\* C12, the part the code keeps: GmailReaderTool returns every message of the
\* batch that can be fetched.
C12_ReaderSurvives ==
  (tool = GMAIL_READER /\ Returned /\ ~faulty)
  => Range(emails) = { i \in Batch : ~inbox[i].gone }

\* The connection to the mail server, or the login, of this call failed
ConnectFailed == Happened("connect", "RAISE") \/ Happened("login", "RAISE")

\* What a caller takes for a description of the failure: the error string of
\* save_draft and empty-trash, the error dictionary of GmailReaderTool, the
\* exception of _connect
Descriptive == {"ERR_EXC", "ERROR", "CONNECTION_ERROR"}

\* C13: when connecting or logging in fails, the caller receives that failure
\* as one descriptive error, never an unrelated exception raised while
\* cleaning up.
C13_ConnectFailureReported ==
  (Returned /\ ConnectFailed) => result.kind \in Descriptive

\* C13, by tool: the tools other than save_draft and empty-trash report the
\* failed connection itself.
C13_OtherToolsReport ==
  (Returned /\ ConnectFailed /\ tool \notin {SAVE_DRAFT, EMPTY_TRASH})
    => result.kind \in Descriptive

\* C14: with a credential absent every tool fails with a configuration error
\* before any network activity; no connection is ever opened.
C14_ConfigurationError ==
  creds # BOTH
    => /\ log = <<>> /\ sess = "none"
       /\ Returned => result.kind \in {"CONFIG_ERROR", "ERR_EXC", "ERROR"}

\* C14, the connection alone: with a credential absent no command is ever
\* sent and no session is ever opened.
C14_NoConnection == creds # BOTH => log = <<>> /\ sess = "none"

\* A call of get_thread_history has returned from a connection without faults
\* on which the seed message could be fetched
ThreadCall ==
  tool = THREAD_HISTORY /\ Returned /\ ~faulty /\ Present(inbox, email_id)

\* The messages of the thread returned, in its order
ThreadReturned == MailsOf(inbox, history.thread_messages)

\* INBOX holds the thread A, B, C and nothing else
ThreadOfThree ==
  /\ Len(inbox) = 3
  /\ Range(inbox) \in {{T_A, T_B, T_C}, {T_A, T_B, T_C_CC}}

Addresses(m) == m.sender \cup m.to \cup m.cc

\* C15: reconstruction over the thread A, B, C, seeded from any of the three,
\* returns the three messages in the order A, B, C and the union of their
\* addresses as participants.
C15_ThreadOfThree ==
  (ThreadCall /\ ThreadOfThree /\ max_depth >= 3)
    => /\ history.kind = "HISTORY"
       /\ ThreadReturned \in {<<T_A, T_B, T_C>>, <<T_A, T_B, T_C_CC>>}
       /\ history.participants = UNION { Addresses(m) : m \in Range(inbox) }

\* C15, on a server that takes the search keys joined by OR: the three
\* messages in order, and as participants the addresses of From and To.
C15_OnLenientServer ==
  (ThreadCall /\ ThreadOfThree /\ max_depth >= 3 /\ lenient)
    => /\ history.kind = "HISTORY"
       /\ ThreadReturned \in {<<T_A, T_B, T_C>>, <<T_A, T_B, T_C_CC>>}
       /\ history.participants = {"a@x", "b@x"}

\* Two messages are linked when they share an identifier
Linked(m, n) == thread_ids(m) \cap thread_ids(n) # {}

\* The messages of box linked to one of S through a chain of links
RECURSIVE Grow(_, _)
Grow(box, S) ==
  LET N == S \cup { j \in 1..Len(box) : \E i \in S : Linked(box[i], box[j]) }
  IN IF N = S THEN S ELSE Grow(box, N)

Closure == Grow(inbox, {email_id})

\* C16: the thread returned holds every message linked to the seed through a
\* chain of identifier matches, whenever there are at most max_depth of them.
C16_TransitiveClosure ==
  (ThreadCall /\ history.kind = "HISTORY" /\ Cardinality(Closure) <= max_depth)
    => Range(history.thread_messages) = Closure

\* C16, one link: the thread returned holds the seed and the messages that
\* share an identifier with the seed itself.
C16_DirectLinks ==
  (ThreadCall /\ history.kind = "HISTORY" /\ Cardinality(Closure) <= max_depth)
    => Range(history.thread_messages) =
         {email_id} \cup { j \in 1..Len(inbox) :
                             Linked(inbox[email_id], inbox[j]) }

\* The date a message is sorted by, a missing or unparseable one the minimum
DateRank(m) == IF m.date.k \in {"none", "bad"} THEN 0 ELSE m.date.t

Ascending(msgs) ==
  \A i, j \in 1..Len(msgs) : i < j => DateRank(msgs[i]) <= DateRank(msgs[j])

\* C17: the thread is returned sorted by date ascending; a message without a
\* parseable date counts as the earliest, and reconstruction succeeds.
C17_UnparseableDateFirst ==
  (ThreadCall /\ lenient)
    => history.kind = "HISTORY" /\ Ascending(ThreadReturned)

\* C17, the order alone: a thread that is returned is in ascending order.
C17_AscendingWhenReturned ==
  (ThreadCall /\ history.kind = "HISTORY") => Ascending(ThreadReturned)

\* C18: message_count <= max_depth for every mailbox and seed, and the seed
\* message appears exactly once.
C18_AtMostMaxDepth ==
  (tool = THREAD_HISTORY /\ Returned)
    => /\ history.message_count <= max_depth
       /\ history.kind = "HISTORY"
            => Cardinality({ k \in 1..Len(history.thread_messages) :
                               history.thread_messages[k] = email_id }) = 1

\* C18, what holds: at most max_depth messages besides the seed, the seed
\* exactly once.
C18_SeedOnceAndBounded ==
  (tool = THREAD_HISTORY /\ Returned)
    => /\ history.message_count <= max_depth + 1
       /\ history.message_count = Len(history.thread_messages)
       /\ history.kind = "HISTORY"
            => Cardinality({ k \in 1..Len(history.thread_messages) :
                               history.thread_messages[k] = email_id }) = 1

\* The fields of the message classified
Fields == {email_data.subject, email_data.sender, email_data.body}

\* A field of the message contains a no-response marker, in any case
HasNoResponseMarker ==
  \E f \in Fields : ContainsAny(Lower(f), no_response_indicators)

Classified == tool = ANALYSIS /\ Returned

\* C19: a message whose subject, sender or body contains a no-response
\* marker yields needs_response = false, whatever solicitation its body holds
\* and whatever the ticket-system flag is.
C19_NoResponseOverrides ==
  (Classified /\ HasNoResponseMarker) => analysis.needs_response = FALSE

\* C19: the sender contains no-reply, the body asks to respond, the message
\* is flagged as a ticket, and the answer is false.
C19_Witness ==
  /\ Classified
  /\ Contains(email_data.sender, <<"n","o","-","r","e","p","l","y">>)
  /\ email_data.body = B_PLEASE_RESPOND
  /\ email_data.is_servicenow
  /\ analysis.needs_response = FALSE

\* C20: every message that contains no no-response marker yields
\* needs_response = true.
C20_DefaultsToResponse ==
  (Classified /\ ~HasNoResponseMarker) => analysis.needs_response = TRUE

\* C20, on the text the code looks at: when subject, sender and body joined
\* by single spaces contain no marker, the answer is true.
C20_JoinedTextWithoutMarker ==
  (Classified /\ ~ContainsAny(text_to_check(email_data.subject,
                                            email_data.sender,
                                            email_data.body),
                              no_response_indicators))
    => analysis.needs_response = TRUE

\* The subject or the body of the message contains one of the markers, in
\* any case
Mentioned(markers) ==
  \/ ContainsAny(Lower(email_data.subject), markers)
  \/ ContainsAny(Lower(email_data.body), markers)

\* C21: urgency is high if an urgency marker is present in subject or body
\* or the priority passed is 'high'; otherwise medium for a message with the
\* ticket-system flag; otherwise low.
C21_Urgency ==
  Classified
    => analysis.urgency =
         IF Mentioned(high_urgency_indicators) \/ email_data.priority = "high"
         THEN "high"
         ELSE IF email_data.is_servicenow THEN "medium" ELSE "low"

\* C21: a flagged message of normal priority with 'urgent' in its subject is
\* of high urgency.
C21_Witness ==
  /\ Classified
  /\ email_data.is_servicenow
  /\ email_data.priority = "normal"
  /\ email_data.subject = <<"U","R","G","E","N","T">>
  /\ analysis.urgency = "high"

\* C21: a flagged message of normal priority without an urgency marker is of
\* medium urgency.
C21_FlaggedMedium ==
  (Classified /\ email_data.is_servicenow /\ email_data.priority = "normal"
     /\ ~Mentioned(high_urgency_indicators))
    => analysis.urgency = "medium"

\* C22: without the ticket-system flag the response type is that of the
\* first marker family present, in the order meeting, question, approval,
\* acknowledgment, general.
C22_Precedence ==
  (Classified /\ ~email_data.is_servicenow)
    => analysis.response_type =
         IF Mentioned({<<"m","e","e","t","i","n","g">>, <<"s","c","h","e","d","u","l","e">>})
         THEN "meeting_response"
         ELSE IF Mentioned({<<"q","u","e","s","t","i","o","n">>, <<"?">>})
         THEN "question_answer"
         ELSE IF Mentioned({<<"a","p","p","r","o","v","a","l">>, <<"a","p","p","r","o","v","e">>})
         THEN "approval_response"
         ELSE IF Mentioned({<<"t","h","a","n","k">>})
         THEN "acknowledgment"
         ELSE "general_response"

\* C22: a meeting term and a question mark together give the meeting type.
C22_Witness ==
  /\ Classified
  /\ ~email_data.is_servicenow
  /\ email_data.subject = <<"M","e","e","t","i","n","g","?">>
  /\ analysis.response_type = "meeting_response"

\* save_draft has formatted the body of the draft
Formatted ==
  tool = SAVE_DRAFT /\ \E i \in 1..Len(log) : log[i].ev = "compose"

\* The text "[Your name]" or "[Your Name]" occurs in s
HasYourName(s) == \E tk \in YOUR_NAME : Contains(s, tk)

\* C23: for a body with the placeholder of the signer's name and for a body
\* without it the formatted body is the body, the name put in, followed by
\* the signature block once, and no placeholder of the name remains.
C23_SignatureOnce ==
  Formatted
    => /\ body_with_signature = sub_your_name(body) \o SIGNATURE
       /\ ~HasYourName(body_with_signature)

\* C23, for a body in which no text "[Your" or "[your" is left once the name
\* is put in: the signature block follows once.
C23_NothingElseInBrackets ==
  (Formatted /\ ~Contains(sub_your_name(body), <<"[","Y","o","u","r">>)
             /\ ~Contains(sub_your_name(body), <<"[","y","o","u","r">>))
    => /\ body_with_signature = sub_your_name(body) \o SIGNATURE
       /\ ~HasYourName(body_with_signature)

\* C23, the name: the placeholder in the spellings the code knows never
\* remains.
C23_NoYourNameLeft == Formatted => ~HasYourName(body_with_signature)

\* ------------------------------------------------------------------------
\* C24: response rendering succeeds for every ticket record and writes
\* 'Unknown' for each field of the chosen template that is not available,
\* the records the parser writes for an email without a ticket number or
\* type among them
\* ------------------------------------------------------------------------
Generated == tool = GENERATOR /\ pc = "done"

Unavailable(v) == v.k # "str"

\* The fields a template writes with the default 'Unknown'
WrittenFields(tpl) ==
  IF tpl = "acknowledgment"
  THEN {"ticket_number", "priority", "state", "category"}
  ELSE IF tpl = "escalation" THEN {"ticket_number", "priority"}
  ELSE {"ticket_number"}

C24_RendersUnknown ==
  Generated =>
    /\ response.kind = "TEXT"
    /\ \A f \in WrittenFields(response.template) :
         Unavailable(ticket_info[f]) => response[f] = UNKNOWN

\* A record with every key missing is rendered with 'Unknown' throughout
C24_MissingKeysAreUnknown ==
  (Generated /\ \A f \in DOMAIN ticket_info : ticket_info[f].k # "null") =>
    /\ response.kind = "TEXT"
    /\ \A f \in WrittenFields(response.template) :
         Unavailable(ticket_info[f]) => response[f] = UNKNOWN

\* The parser writes null, never a missing key, for what it did not find,
\* and no type without a ticket number
C24_ParserWritesNull ==
  (tool = PARSER /\ pc = "done") =>
    /\ \A f \in DOMAIN parsed_info : parsed_info[f].k # "absent"
    /\ parsed_info.ticket_number.k = "null" => parsed_info.ticket_type.k = "null"

\* The record the parser writes for an email without a ticket number
C24_ParsedWithoutNumber ==
  /\ Generated
  /\ ticket_info = parse(<<"Y","o","u","r"," ","r","e","q","u","e","s","t",
      " ","w","a","s"," ","c","l","o","s","e","d">>)
  /\ response.kind = "ERROR"

\* ------------------------------------------------------------------------
\* C25: at the HTTP boundary every failure of the operation is answered with
\* status 500, and 200 is answered only when the operation succeeded
\* ------------------------------------------------------------------------
Answered == http_status # 0

\* The values _run returns when the operation did what was asked: the list of
\* emails, the thread history, the draft
Succeeded == result.kind \in {"EMAILS", "HISTORY", "DRAFTED"}

C25_FailureIs500 ==
  Answered =>
    /\ (~Succeeded => http_status = 500)
    /\ (http_status = 200 => Succeeded)

\* An exception that leaves _run is answered with status 500
C25_ExceptionIs500 ==
  (Answered /\ result.kind \in {"CONFIG_ERROR", "CONNECTION_ERROR"}) =>
    http_status = 500

\* A thread history that could not be fetched, answered with status 200
C25_ErrorAnswered200 ==
  /\ tool = THREAD_HISTORY /\ history = HistoryError
  /\ Happened("fetch", "NO")
  /\ http_status = 200

\* ------------------------------------------------------------------------
\* C26: in every tool a command that needs a selected mailbox (fetch, search,
\* store, expunge) is issued only after a select was issued on that session;
\* nothing fetches from a session that is merely authenticated
\* ------------------------------------------------------------------------
NeedsSelected == {"fetch", "search", "store", "expunge"}

SelectBefore(i) == \E j \in 1..(i - 1) : log[j].ev = "select"

C26_SelectFirst ==
  \A i \in 1..Len(log) : log[i].ev \in NeedsSelected => SelectBefore(i)

\* C26, by tool: every tool but draft_contextual_reply selects first
C26_SelectFirstElsewhere ==
  tool # CONTEXT_REPLY => C26_SelectFirst

\* imaplib sends no such command on a session without a selected mailbox: it
\* raises in the caller instead
C26_RefusedByLibrary ==
  \A i \in 1..Len(log) :
    (log[i].ev \in NeedsSelected /\ log[i].res # "ILLEGAL") =>
      \E j \in 1..(i - 1) : log[j].ev = "select" /\ log[j].res = "OK"

\* draft_contextual_reply has called fetch on the session as login left it
C26_FetchWithoutSelect ==
  /\ tool = CONTEXT_REPLY /\ Returned
  /\ \E i \in 1..Len(log) : log[i].ev = "fetch" /\ ~SelectBefore(i)

\* ------------------------------------------------------------------------
\* C27: when save_draft returns VERIFIED naming folder F, the draft this call
\* appended is in F, F is the folder it was appended to, and it is this draft
\* the search has found; a message with the same subject that was there
\* before, or a match in another folder, never produces VERIFIED
\* ------------------------------------------------------------------------
Verified == tool = SAVE_DRAFT /\ Returned /\ result.kind = "VERIFIED"

\* The drafts of this call that a search in the folder named f finds
FoundIn(f) ==
  { i \in Written : mbox[i].folder = Mailbox(f) /\ mbox[i].indexed }

C27_VerifiedIsThisDraft ==
  Verified =>
    /\ FoundIn(result.folder) # {}
    /\ Mailbox(result.folder) = Mailbox(drafts_folder)

\* With no message in the mailbox but the draft of this call, VERIFIED names
\* the folder of the draft
C27_VerifiedInEmptyMailbox ==
  (Verified /\ \A i \in 1..Len(mbox) : mbox[i].call = calls) =>
    /\ FoundIn(result.folder) # {}
    /\ Mailbox(result.folder) = Mailbox(drafts_folder)

\* VERIFIED names a folder other than the one the draft was appended to
C27_VerifiedElsewhere ==
  Verified /\ Mailbox(result.folder) # Mailbox(drafts_folder)

\* VERIFIED in the folder of the draft, which the search does not see yet
C27_VerifiedByOlderMessage ==
  /\ Verified /\ Mailbox(result.folder) = Mailbox(drafts_folder)
  /\ FoundIn(result.folder) = {}

\* ------------------------------------------------------------------------
\* C28: in main.run every email the reader flags as ServiceNow and the
\* analysis marks as needing a response gets urgency 'high'; urgency 'medium'
\* is given only to emails that need no response
\* ------------------------------------------------------------------------
Analysed == tool = MAIN_RUN /\ analysis.kind = "ANALYSIS"

C28_FlaggedNeedsResponseIsHigh ==
  Analysed =>
    /\ (email_data.is_servicenow /\ analysis.needs_response)
         => analysis.urgency = "high"
    /\ analysis.urgency = "medium" => ~analysis.needs_response

\* A flagged email without any marker of urgency or of high priority, which
\* needs a response
C28_Witness ==
  /\ Analysed
  /\ email_data.is_servicenow /\ analysis.needs_response
  /\ ~Mentioned(high_urgency_indicators)
  /\ ~ContainsAny(reader_text(email_data.sender, email_data.subject,
                              email_data.body), high_priority_indicators)
  /\ analysis.urgency = "high"

\* A flagged email of urgency 'medium'
C28_WitnessMedium ==
  Analysed /\ analysis.urgency = "medium" /\ ~analysis.needs_response

\* ------------------------------------------------------------------------
\* C29: when main.run has processed N emails, the directory output holds N
\* analysis files, one for each email, however quickly they were processed
\* ------------------------------------------------------------------------
C29_OneFilePerEmail ==
  (tool = MAIN_RUN /\ Returned) =>
    /\ Cardinality(output) = Len(processed_emails)
    /\ \A i \in 1..Len(processed_emails) : \E f \in output : f.email = i

\* Emails saved in different seconds have a file each
C29_OneFilePerSecond ==
  (tool = MAIN_RUN /\ Returned
     /\ \A i, j \in 1..Len(processed_emails) :
          i # j => processed_emails[i] # processed_emails[j]) =>
    /\ Cardinality(output) = Len(processed_emails)
    /\ \A i \in 1..Len(processed_emails) : \E f \in output : f.email = i

\* Two emails processed within one second: one file is left
C29_Overwritten ==
  /\ tool = MAIN_RUN /\ Returned
  /\ Len(processed_emails) = 2 /\ Cardinality(output) = 1

\* ------------------------------------------------------------------------
\* C30: organize_email stores the starred flag on the email exactly when
\* should_star is true, whatever the category and the priority, and the
\* summary says 'Starred=' with the truth of whether the flag was stored
\* ------------------------------------------------------------------------
Organized == tool = ORGANIZE /\ Returned /\ result.kind = "ORGANIZED"

FlagStored ==
  \E i \in 1..Len(log) :
    log[i].ev = "store" /\ log[i].arg = "\\Flagged" /\ log[i].res = "OK"

C30_StarredAsAsked ==
  Organized =>
    /\ FlagStored <=> organize_args.should_star
    /\ summary_starred(organize_args) <=> FlagStored

\* For the category 'Urgent Response Needed' with priority 'High' the flag
\* is stored as asked; for no email is it stored unasked
C30_StarredWhenUrgent ==
  Organized =>
    /\ (organize_args.category = URGENT_CATEGORY
          /\ organize_args.priority = HIGH)
         => (FlagStored <=> organize_args.should_star)
    /\ FlagStored => organize_args.should_star

\* A summary 'Starred=True' for an email no flag was stored on
C30_ReportedNotStored ==
  Organized /\ summary_starred(organize_args) /\ ~FlagStored

====
